---- MODULE Spec2Model ----
(***************************************************************************)
(* Annotation engine of InkLingEnhanced: the DrawingCanvas component of    *)
(* src/components/drawing-canvas.tsx (normalized vector ink, per-page      *)
(* undo/redo history, pointer input machine, excerpt compositor) and the   *)
(* part of its host (src/unnamed/part_001) that loads a project.           *)
(***************************************************************************)
EXTENDS Integers, Sequences, FiniteSets, TLC

(* ------------------------------ bounds --------------------------------- *)
\* number of page slots the model looks at (pages are numbered from 0)
NumPages == 2
\* an ink gesture may start only while the store holds fewer stroke-lists
MaxLists == 4
\* an in-progress stroke samples at most this many points
MaxPts == 2
\* the undo/redo scenario commits at most this many strokes
MaxCommits == 2
\* the gesture scenario starts an ink gesture only while the store holds
\* fewer stroke-lists
MaxInputLists == 2
\* the gesture scenario samples at most this many positions per gesture
MaxLog == 3
\* the excerpt scenario keeps at most this many excerpts in flight
MaxInFlight == 1

Pages == 0 .. (NumPages - 1)

(* --------------------------- program constants ------------------------- *)
penSize == 5
eraserSize == 20
highlighterSize == 20
\* draw(): Math.abs(p1.x - p2.x) > 2 || Math.abs(p1.y - p2.y) > 2
MoveThreshold == 2
\* stopDrawing(): width > 5 && height > 5
MinExcerpt == 5
\* stopDrawing(): width > 20 && height > 20
MinNote == 20

InkTools == {"draw", "erase", "highlight"}
SelTools == {"snapshot", "note"}
Tools == InkTools \cup SelTools \cup {"inkling", "null"}

(* ------------------------------ numbers -------------------------------- *)
Abs(a) == IF a < 0 THEN -a ELSE a

Min(a, b) == IF a < b THEN a ELSE b

RECURSIVE Gcd(_, _)
Gcd(a, b) == IF b = 0 THEN a ELSE Gcd(b, a % b)

\* the quotient n / d of two pixel values, kept exact as a reduced fraction;
\* a zero divisor gives the non-finite value <<sign, 0>>
Div(n, d) ==
    IF d = 0 THEN <<(IF n > 0 THEN 1 ELSE IF n < 0 THEN -1 ELSE 0), 0>>
    ELSE LET g == Gcd(Abs(n), Abs(d))
         IN  <<n \div g, d \div g>>

\* Math.round(a * m / d): the nearest integer, halves rounded up
RoundDiv(a, m, d) == (2 * a * m + d) \div (2 * d)

(* ------------------------------ options -------------------------------- *)
\* a nullable value is a sequence of length 0 (null) or 1
Null == <<>>
Some(v) == <<v>>
IsNull(o) == Len(o) = 0
The(o) == o[1]

(* ------------------------------- state --------------------------------- *)
VARIABLES
    pageHistory,        \* pageHistoryRef: Map page -> stack of stroke-lists
    pageHistoryIndex,   \* pageHistoryIndexRef: Map page -> current index
    pages,              \* pages.length, the number of page images of the pages prop
    canvases,           \* displayCanvasRefs: Map page -> <<width, height>>
    shown,              \* what each bound canvas displays
    tool,               \* the tool prop
    pdfDoc,             \* the pdfDoc prop is non-null
    isDrawing,          \* isDrawingRef
    hasMoved,           \* hasMovedRef
    lastActivePage,     \* lastActivePageRef
    currentPath,        \* currentPathRef (nullable, pixel coordinates)
    selection,          \* selection state (nullable, pixel coordinates)
    excerpts,           \* stopDrawing calls suspended at an await
    isProjectLoading,   \* the host's isProjectLoading state
    restoreTimers,      \* setTimeout callbacks of the restore effect
    pinupLoading,       \* the host's second canvas has a restore to complete
    out,                \* what the last handler run emitted to the host
    scen                \* the record a test scenario keeps of its run

store == <<pageHistory, pageHistoryIndex>>
surface == <<pages, canvases, shown>>
gesture == <<isDrawing, hasMoved, lastActivePage, currentPath, selection>>
loading == <<isProjectLoading, restoreTimers, pinupLoading>>
vars == <<pageHistory, pageHistoryIndex, pages, canvases, shown, tool, pdfDoc,
          isDrawing, hasMoved, lastActivePage, currentPath, selection,
          excerpts, isProjectLoading, restoreTimers, pinupLoading, out, scen>>

(* ------------------------------- maps ---------------------------------- *)
\* Map.set(k, v)
MapSet(m, k, v) == [q \in (DOMAIN m) \cup {k} |-> IF q = k THEN v ELSE m[q]]

EmptyMap == [q \in {} |-> 0]

\* pageHistoryRef.current.get(page) ?? []
StackOf(h, p) == IF p \in DOMAIN h THEN h[p] ELSE <<>>

\* pageHistoryIndexRef.current.get(page) ?? -1
IndexOf(ix, p) == IF p \in DOMAIN ix THEN ix[p] ELSE -1

\* historyStack[i] ?? []   (JavaScript index i, TLA+ position i + 1)
ListAt(stack, i) == IF i >= 0 /\ i < Len(stack) THEN stack[i + 1] ELSE <<>>

\* Array.prototype.slice(0, n)
Slice(s, n) == SubSeq(s, 1, Min(IF n < 0 THEN 0 ELSE n, Len(s)))

\* a variant that always reports that nothing can be undone or redone
HistoryButtons_Stale(h, ix, p) == <<FALSE, FALSE>>

(* ---------------------------- history store ---------------------------- *)
\* updateHistoryButtons(page): the arguments passed to onHistoryChange
HistoryButtons(h, ix, p) ==
    <<IndexOf(ix, p) > 0, IndexOf(ix, p) < Len(StackOf(h, p)) - 1>>

\* commitHistory: the stroke in the normalized space of the canvas
RelativePath(path, w, ht) ==
    [path EXCEPT !.points = [i \in 1 .. Len(path.points) |->
                                <<Div(path.points[i][1], w),
                                  Div(path.points[i][2], ht)>>],
                 !.size = Div(path.size, w)]

\* a mutant of CommitStack: slice(0, currentIndex) drops the current list too
CommitStack_SliceShort(stack, i, rel) == Append(Slice(stack, i), Append(ListAt(stack, i), rel))

\* a mutant of CommitStack: the lists after the current index are kept
CommitStack_NoTruncate(stack, i, rel) == Append(stack, Append(ListAt(stack, i), rel))

\* commitHistory: the stack after the commit
CommitStack(stack, i, rel) == Append(Slice(stack, i + 1), Append(ListAt(stack, i), rel))

\* a variant that writes the new stack and index to every page of the store
CommitHistory_EveryPage(h, ix, cv, p, path) ==
    IF p \notin DOMAIN cv \/ cv[p][1] = 0 THEN <<h, ix>>
    ELSE LET rel == RelativePath(path, cv[p][1], cv[p][2])
             ns  == CommitStack(StackOf(h, p), IndexOf(ix, p), rel)
             ks  == DOMAIN h \cup {p}
         IN  <<[q \in ks |-> ns], [q \in ks |-> Len(ns) - 1]>>

\* commitHistory(pageIndex, newPath): the two maps after the call
CommitHistory(h, ix, cv, p, path) ==
    IF p \notin DOMAIN cv \/ cv[p][1] = 0 THEN <<h, ix>>
    ELSE LET rel == RelativePath(path, cv[p][1], cv[p][2])
             ns  == CommitStack(StackOf(h, p), IndexOf(ix, p), rel)
         IN  <<MapSet(h, p, ns), MapSet(ix, p, Len(ns) - 1)>>

\* renderPaths draws nothing on a canvas without area
RenderPaths(cv, p, paths) ==
    IF cv[p][1] = 0 \/ cv[p][2] = 0 THEN <<>> ELSE paths

\* the fraction f multiplied by the whole number w
Scale(f, w) == Div(f[1] * w, f[2])

\* (a + b) / 2 of two fractions
Mid(a, b) == Div(a[1] * b[2] + b[1] * a[2], 2 * a[2] * b[2])

\* a variant whose curves end midway between a point and the one before it
GetPathAsSVG_MidPrev(points) ==
    IF Len(points) = 0 THEN <<>>
    ELSE IF Len(points) < 2
    THEN << [op |-> "rect",
             at |-> <<Div(2 * points[1][1][1] - points[1][1][2], 2 * points[1][1][2]),
                      Div(2 * points[1][2][1] - points[1][2][2], 2 * points[1][2][2])>>,
             w  |-> 1, h |-> 1] >>
    ELSE << [op |-> "moveTo", to |-> points[1]] >>
         \o [i \in 1 .. Len(points) - 2 |->
                [op |-> "quadraticCurveTo",
                 c  |-> points[i + 1],
                 to |-> <<Mid(points[i][1], points[i + 1][1]),
                          Mid(points[i][2], points[i + 1][2])>>]]
         \o << [op |-> "lineTo", to |-> points[Len(points)]] >>

\* getPathAsSVG(path): the drawing commands of the Path2D made from the
\* points, each a pair of fractions
GetPathAsSVG(points) ==
    IF Len(points) = 0 THEN <<>>
    ELSE IF Len(points) < 2
    THEN << [op |-> "rect",
             at |-> <<Div(2 * points[1][1][1] - points[1][1][2], 2 * points[1][1][2]),
                      Div(2 * points[1][2][1] - points[1][2][2], 2 * points[1][2][2])>>,
             w  |-> 1, h |-> 1] >>
    ELSE << [op |-> "moveTo", to |-> points[1]] >>
         \o [i \in 1 .. Len(points) - 2 |->
                [op |-> "quadraticCurveTo",
                 c  |-> points[i + 1],
                 to |-> <<Mid(points[i + 1][1], points[i + 2][1]),
                          Mid(points[i + 1][2], points[i + 2][2])>>]]
         \o << [op |-> "lineTo", to |-> points[Len(points)]] >>

\* the points of a stored path on a surface of w by ht pixels
AbsolutePoints(path, w, ht) ==
    [i \in 1 .. Len(path.points) |-> <<Scale(path.points[i][1], w),
                                       Scale(path.points[i][2], ht)>>]

\* renderPaths(context, paths): the Path2D stroked for each path, none when
\* the surface has no width or no height
StrokedPaths(paths, w, ht) ==
    IF w = 0 \/ ht = 0 THEN <<>>
    ELSE [j \in 1 .. Len(paths) |-> GetPathAsSVG(AbsolutePoints(paths[j], w, ht))]

\* draw(e): the Path2D stroked for the in-progress path, whose points are pixels
LivePath(path) ==
    GetPathAsSVG([i \in 1 .. Len(path.points) |-> <<<<path.points[i][1], 1>>,
                                                    <<path.points[i][2], 1>>>>])

\* redrawCanvas(pageIndex): the strokes on the canvas after the call
RedrawCanvas(h, ix, cv, p) ==
    IF p \in DOMAIN h /\ p \in DOMAIN ix /\ ix[p] > -1
    THEN RenderPaths(cv, p, ListAt(h[p], ix[p]))
    ELSE <<>>

\* the display after redrawCanvas(pageIndex); an unbound page has no display
Redrawn(sh, h, ix, cv, p) ==
    IF p \in DOMAIN cv
    THEN MapSet(sh, p, [paths |-> RedrawCanvas(h, ix, cv, p), live |-> Null])
    ELSE sh

\* the least element of a non-empty set of page numbers
MinOf(S) == CHOOSE a \in S : \A b \in S : a <= b

\* Array.from(map.entries()): the <<key, value>> pairs of a map, keys ascending
RECURSIVE EntriesFrom(_, _)
EntriesFrom(m, keys) ==
    IF keys = {} THEN <<>>
    ELSE <<<<MinOf(keys), m[MinOf(keys)]>>>> \o EntriesFrom(m, keys \ {MinOf(keys)})

Entries(m) == EntriesFrom(m, DOMAIN m)

\* a variant that keeps only the first pair
NewMap_FirstOnly(entries) ==
    IF entries = <<>> THEN EmptyMap
    ELSE MapSet(EmptyMap, entries[1][1], entries[1][2])

\* new Map(entries): a later pair replaces an earlier one with the same key
RECURSIVE NewMap(_)
NewMap(entries) ==
    IF entries = <<>> THEN EmptyMap
    ELSE LET n == Len(entries)
         IN  MapSet(NewMap(SubSeq(entries, 1, n - 1)), entries[n][1], entries[n][2])

\* a variant that saves every page that has an index
SavedPages_All(h, ix) == DOMAIN h \cap DOMAIN ix

\* getAnnotationData(): the pages that go into the payload
SavedPages(h, ix) ==
    {p \in DOMAIN h : /\ p \in DOMAIN ix
                      /\ ix[p] > -1
                      /\ Len(ListAt(h[p], ix[p])) > 0}

\* a variant that saves every stack whole
GetAnnotationData_WholeStacks(h, ix) ==
    IF DOMAIN h = {} \/ SavedPages(h, ix) = {} THEN Null
    ELSE Some([history      |-> Entries([p \in SavedPages(h, ix) |-> h[p]]),
               historyIndex |-> Entries([p \in SavedPages(h, ix) |-> ix[p]])])

\* a variant that writes the index of every page that has one
GetAnnotationData_EveryIndex(h, ix) ==
    IF DOMAIN h = {} \/ SavedPages(h, ix) = {} THEN Null
    ELSE Some([history      |-> Entries([p \in SavedPages(h, ix) |-> Slice(h[p], ix[p] + 1)]),
               historyIndex |-> Entries([p \in DOMAIN ix |-> ix[p]])])

\* getAnnotationData(): the payload, or Null for undefined
GetAnnotationData(h, ix) ==
    IF DOMAIN h = {} \/ SavedPages(h, ix) = {} THEN Null
    ELSE Some([history      |-> Entries([p \in SavedPages(h, ix) |-> Slice(h[p], ix[p] + 1)]),
               historyIndex |-> Entries([p \in SavedPages(h, ix) |-> ix[p]])])

(* --------------------------- surface binding --------------------------- *)
\* the intrinsic size of a canvas element that has not been sized yet
DefaultSize == <<30, 15>>

\* a variant that reports every pointer position as the canvas origin
GetPoint_Origin(cv, p, pt) == <<0, 0>>

\* getPoint(e, canvasIndex): the pointer position relative to the canvas
GetPoint(cv, p, pt) == IF p \in DOMAIN cv THEN pt ELSE <<0, 0>>

\* what a handler emits: onHistoryChange calls, onSnapshot calls, onNoteCreate
\* calls and toast titles
Out(hc, snap, note, toast) ==
    [hc |-> hc, snap |-> snap, note |-> note, toast |-> toast]

\* a variant that drops the in-progress stroke
SetupCanvases_DropsStroke(p, size) ==
    /\ p \in DOMAIN canvases
    /\ LET cv == MapSet(canvases, p, size)
           h  == IF p \in DOMAIN pageHistory THEN pageHistory
                 ELSE MapSet(pageHistory, p, << <<>> >>)
           ix == IF p \in DOMAIN pageHistory THEN pageHistoryIndex
                 ELSE MapSet(pageHistoryIndex, p, 0)
       IN  /\ canvases' = cv
           /\ pageHistory' = h
           /\ pageHistoryIndex' = ix
           /\ shown' = Redrawn(shown, h, ix, cv, p)
           /\ out' = Out(<<HistoryButtons(h, ix, p)>>, <<>>, <<>>, <<>>)
    /\ currentPath' = Null
    /\ UNCHANGED <<pages, tool, pdfDoc, isDrawing, hasMoved, lastActivePage, selection,
                   excerpts, loading>>

\* a variant that starts the history of the page afresh at every call
SetupCanvases_Reset(p, size) ==
    /\ p \in DOMAIN canvases
    /\ LET cv == MapSet(canvases, p, size)
           h  == MapSet(pageHistory, p, << <<>> >>)
           ix == MapSet(pageHistoryIndex, p, 0)
       IN  /\ canvases' = cv
           /\ pageHistory' = h
           /\ pageHistoryIndex' = ix
           /\ shown' = Redrawn(shown, h, ix, cv, p)
           /\ out' = Out(<<HistoryButtons(h, ix, p)>>, <<>>, <<>>, <<>>)
    /\ UNCHANGED <<pages, tool, pdfDoc, gesture, excerpts, loading>>

\* setupCanvases(container, index), run on image load and by the ResizeObserver
SetupCanvases(p, size) ==
    /\ p \in DOMAIN canvases
    /\ LET cv == MapSet(canvases, p, size)
           h  == IF p \in DOMAIN pageHistory THEN pageHistory
                 ELSE MapSet(pageHistory, p, << <<>> >>)
           ix == IF p \in DOMAIN pageHistory THEN pageHistoryIndex
                 ELSE MapSet(pageHistoryIndex, p, 0)
       IN  /\ canvases' = cv
           /\ pageHistory' = h
           /\ pageHistoryIndex' = ix
           /\ shown' = Redrawn(shown, h, ix, cv, p)
           /\ out' = Out(<<HistoryButtons(h, ix, p)>>, <<>>, <<>>, <<>>)
    /\ UNCHANGED <<pages, tool, pdfDoc, gesture, excerpts, loading>>

(* ------------------------------ commands ------------------------------- *)
\* a variant that adds the pages 0..n-1 without emptying the maps first
InitializePages_NoReset(n) ==
    /\ pageHistory' = [p \in DOMAIN pageHistory \cup (0 .. (n - 1)) |-> << <<>> >>]
    /\ pageHistoryIndex' = [p \in DOMAIN pageHistoryIndex \cup (0 .. (n - 1)) |-> 0]
    /\ out' = Out(<<>>, <<>>, <<>>, <<>>)
    /\ UNCHANGED <<surface, tool, pdfDoc, gesture, excerpts, loading>>

\* initializePages(numPages)
InitializePages(n) ==
    /\ pageHistory' = [p \in 0 .. (n - 1) |-> << <<>> >>]
    /\ pageHistoryIndex' = [p \in 0 .. (n - 1) |-> 0]
    /\ out' = Out(<<>>, <<>>, <<>>, <<>>)
    /\ UNCHANGED <<surface, tool, pdfDoc, gesture, excerpts, loading>>

\* a mutant of UndoIndex: the index > 0 guard is lost
UndoIndex_Unguarded(index) == index - 1

\* a variant in which undo waits for the excerpts in flight
UndoIndex_WhilePending(index) ==
    IF excerpts # <<>> THEN index ELSE IF index > 0 THEN index - 1 ELSE index

\* a variant that goes back to the first stroke-list
UndoIndex_ToStart(index) == 0

\* undo(): the index after the call (index > 0 guards newIndex = index - 1)
UndoIndex(index) == IF index > 0 THEN index - 1 ELSE index

\* undo()
Undo ==
    LET page  == lastActivePage
        index == IndexOf(pageHistoryIndex, page)
    IN  IF UndoIndex(index) # index
        THEN LET ix == MapSet(pageHistoryIndex, page, UndoIndex(index))
             IN  /\ pageHistoryIndex' = ix
                 /\ shown' = Redrawn(shown, pageHistory, ix, canvases, page)
                 /\ out' = Out(<<HistoryButtons(pageHistory, ix, page)>>, <<>>, <<>>, <<>>)
                 /\ UNCHANGED <<pageHistory, pages, canvases, tool, pdfDoc, gesture,
                                excerpts, loading>>
        ELSE /\ out' = Out(<<>>, <<>>, <<>>, <<>>)
             /\ UNCHANGED <<store, surface, tool, pdfDoc, gesture, excerpts, loading>>

\* redo(): the index after the call (index < history.length - 1 guards
\* newIndex = index + 1)
RedoIndex(index, length) == IF index < length - 1 THEN index + 1 ELSE index

\* redo()
Redo ==
    LET page    == lastActivePage
        history == StackOf(pageHistory, page)
        index   == IndexOf(pageHistoryIndex, page)
    IN  IF RedoIndex(index, Len(history)) # index
        THEN LET ix == MapSet(pageHistoryIndex, page, RedoIndex(index, Len(history)))
             IN  /\ pageHistoryIndex' = ix
                 /\ shown' = Redrawn(shown, pageHistory, ix, canvases, page)
                 /\ out' = Out(<<HistoryButtons(pageHistory, ix, page)>>, <<>>, <<>>, <<>>)
                 /\ UNCHANGED <<pageHistory, pages, canvases, tool, pdfDoc, gesture,
                                excerpts, loading>>
        ELSE /\ out' = Out(<<>>, <<>>, <<>>, <<>>)
             /\ UNCHANGED <<store, surface, tool, pdfDoc, gesture, excerpts, loading>>

\* clear(): the maps and the display after clearAndReset of every page of ps
RECURSIVE ClearAndReset(_, _, _, _, _)
ClearAndReset(h, ix, sh, cv, ps) ==
    IF ps = {} THEN <<h, ix, sh>>
    ELSE LET p  == CHOOSE q \in ps : TRUE
             h1 == MapSet(h, p, << <<>> >>)
             x1 == MapSet(ix, p, 0)
         IN  ClearAndReset(h1, x1, Redrawn(sh, h1, x1, cv, p), cv, ps \ {p})

\* clear(): the pages it resets
ClearedPages(h, n) == IF n = 0 THEN {0} ELSE DOMAIN h

\* clear()
Clear ==
    LET r == ClearAndReset(pageHistory, pageHistoryIndex, shown, canvases,
                           ClearedPages(pageHistory, pages))
    IN  /\ pageHistory' = r[1]
        /\ pageHistoryIndex' = r[2]
        /\ shown' = r[3]
        /\ out' = Out(<<HistoryButtons(r[1], r[2], lastActivePage)>>, <<>>, <<>>, <<>>)
        /\ UNCHANGED <<pages, canvases, tool, pdfDoc, gesture, excerpts, loading>>

(* -------------------------------- props -------------------------------- *)
\* the pages whose canvas element is rendered for n page images
Rendered(n) == 0 .. ((IF n = 0 THEN 1 ELSE n) - 1)

\* the canvas elements that stay attached when the pages prop goes from old to
\* n page images: Page components beyond n unmount, and a change between the
\* single-canvas layout (n = 0) and the page stack replaces every element
KeptCanvases(cv, old, n) ==
    IF (old = 0) # (n = 0) THEN {} ELSE DOMAIN cv \cap Rendered(n)

\* the host passes a new pages prop (setPageImages) and React commits the
\* render: ref={(el) => displayCanvasRefs.current[index] = el}
SetPages(n) ==
    /\ n # pages
    /\ pages' = n
    /\ canvases' = [p \in Rendered(n) |->
                       IF p \in KeptCanvases(canvases, pages, n) THEN canvases[p]
                       ELSE DefaultSize]
    /\ shown' = [p \in Rendered(n) |->
                    IF p \in KeptCanvases(canvases, pages, n) THEN shown[p]
                    ELSE [paths |-> <<>>, live |-> Null]]
    /\ out' = Out(<<>>, <<>>, <<>>, <<>>)
    /\ UNCHANGED <<store, tool, pdfDoc, gesture, excerpts, loading>>

\* the host passes a new tool prop (handleToolClick, setTool)
SetTool(t) ==
    /\ t # tool
    /\ tool' = t
    /\ out' = Out(<<>>, <<>>, <<>>, <<>>)
    /\ UNCHANGED <<store, surface, pdfDoc, gesture, excerpts, loading>>

\* the host passes a new pdfDoc prop (setPdfDoc)
SetPdfDoc(b) ==
    /\ b # pdfDoc
    /\ pdfDoc' = b
    /\ out' = Out(<<>>, <<>>, <<>>, <<>>)
    /\ UNCHANGED <<store, surface, tool, gesture, excerpts, loading>>

(* ----------------------------- project load ---------------------------- *)
\* the initialAnnotations prop made from the pdfAnnotations of a saved project
\* (handleSave writes getAnnotationData(), loadProjectData reads it back);
\* entries tells whether the two arrays hold [key, value] entries
ProjectAnnotations(saved) ==
    IF IsNull(saved) THEN Null
    ELSE Some([history      |-> Some(The(saved).history),
               historyIndex |-> Some(The(saved).historyIndex),
               entries      |-> TRUE])

\* the restore effect: <<history map, index map, timers, loading, toasts>>
\* from the maps h, ix left by the host's clear()
RestoreEffect(h, ix, cv, data) ==
    IF IsNull(data) THEN <<h, ix, Null, TRUE, <<>>>>
    ELSE LET d == The(data)
         IN  IF IsNull(d.history) \/ IsNull(d.historyIndex)
             THEN <<h, ix, Null, FALSE, <<>>>>
             ELSE IF ~d.entries
             THEN <<EmptyMap, EmptyMap, Null, FALSE, <<"Error loading project">>>>
             ELSE LET hm == NewMap(The(d.history))
                  IN  <<hm, NewMap(The(d.historyIndex)),
                        Some(DOMAIN hm \cap DOMAIN cv), TRUE, <<>>>>

\* loadProjectData of the host followed by the restore effects of the render
\* it causes: setIsProjectLoading(true), clear(), setAnnotationDataToLoad and
\* setPinupAnnotationDataToLoad; data is the pdfAnnotations of the project and
\* pinup tells whether the project has pinupAnnotations, which the host's
\* second canvas restores and completes on its own
LoadProjectData(data, pinup) ==
    /\ IsNull(restoreTimers)
    /\ ~pinupLoading
    /\ LET c == ClearAndReset(pageHistory, pageHistoryIndex, shown, canvases,
                              ClearedPages(pageHistory, pages))
           r == RestoreEffect(c[1], c[2], canvases, data)
       IN  /\ pageHistory' = r[1]
           /\ pageHistoryIndex' = r[2]
           /\ shown' = c[3]
           /\ restoreTimers' = r[3]
           /\ isProjectLoading' = r[4]
           /\ pinupLoading' = pinup
           /\ out' = Out(<<HistoryButtons(c[1], c[2], lastActivePage)>>, <<>>, <<>>, r[5])
    /\ UNCHANGED <<pages, canvases, tool, pdfDoc, gesture, excerpts>>

\* loadProjectData of a project without pinupAnnotations
LoadProject(data) == LoadProjectData(data, FALSE)

\* onProjectLoadComplete of the host's second canvas, at the end of its restore
PinupLoadComplete ==
    /\ pinupLoading
    /\ pinupLoading' = FALSE
    /\ isProjectLoading' = FALSE
    /\ out' = Out(<<>>, <<>>, <<>>, <<>>)
    /\ UNCHANGED <<store, surface, tool, pdfDoc, gesture, excerpts, restoreTimers>>

\* a setTimeout callback of the restore effect: redrawCanvas, updateHistoryButtons
RestoreTimer(p) ==
    /\ ~IsNull(restoreTimers)
    /\ p \in The(restoreTimers)
    /\ restoreTimers' = Some(The(restoreTimers) \ {p})
    /\ shown' = Redrawn(shown, pageHistory, pageHistoryIndex, canvases, p)
    /\ out' = Out(<<HistoryButtons(pageHistory, pageHistoryIndex, p)>>, <<>>, <<>>, <<>>)
    /\ UNCHANGED <<store, pages, canvases, tool, pdfDoc, gesture, excerpts, isProjectLoading,
                   pinupLoading>>

\* Promise.all(restorePromises).then(() => onProjectLoadComplete())
LoadComplete ==
    /\ restoreTimers = Some({})
    /\ restoreTimers' = Null
    /\ isProjectLoading' = FALSE
    /\ out' = Out(<<>>, <<>>, <<>>, <<>>)
    /\ UNCHANGED <<store, surface, tool, pdfDoc, gesture, excerpts, pinupLoading>>

(* ---------------------------- input machine ---------------------------- *)
\* a variant that gives every stroke full opacity and normal blending
NewPath_Plain(t, point) ==
    [tool               |-> t,
     points             |-> <<point>>,
     color              |-> IF t = "draw" THEN "penColor"
                            ELSE IF t = "highlight" THEN "highlighterColor"
                            ELSE "#000000",
     size               |-> IF t = "draw" THEN penSize
                            ELSE IF t = "highlight" THEN highlighterSize
                            ELSE eraserSize,
     globalAlpha        |-> <<1, 1>>,
     compositeOperation |-> "source-over"]

\* startDrawing: the new in-progress stroke
NewPath(t, point) ==
    [tool               |-> t,
     points             |-> <<point>>,
     color              |-> IF t = "draw" THEN "penColor"
                            ELSE IF t = "highlight" THEN "highlighterColor"
                            ELSE "#000000",
     size               |-> IF t = "draw" THEN penSize
                            ELSE IF t = "highlight" THEN highlighterSize
                            ELSE eraserSize,
     globalAlpha        |-> IF t = "highlight" THEN <<3, 10>> ELSE <<1, 1>>,
     compositeOperation |-> IF t = "erase" THEN "destination-out" ELSE "source-over"]

\* onMouseDownCapture of the container: the page it makes active
CapturedPage(n, vis) == IF n = 0 THEN 0 ELSE vis

\* onMouseDownCapture of the container: its onHistoryChange calls
CapturedButtons(h, ix, n, vis) == IF n = 0 THEN <<>> ELSE <<HistoryButtons(h, ix, vis)>>

\* a mouse press in the container that reaches no canvas handler
\* (outside every canvas, or a button other than the primary one)
ActivatePage(vis) ==
    /\ vis \in Rendered(pages)
    /\ lastActivePage' = CapturedPage(pages, vis)
    /\ out' = Out(CapturedButtons(pageHistory, pageHistoryIndex, pages, vis), <<>>, <<>>, <<>>)
    /\ UNCHANGED <<store, surface, tool, pdfDoc, isDrawing, hasMoved, currentPath,
                   selection, excerpts, loading>>

\* a primary-button press at pt on the canvas of page p while page vis is the
\* most visible one: onMouseDownCapture, then startDrawing(e, p)
Press(p, pt, vis) ==
    /\ p \in DOMAIN canvases
    /\ vis \in Rendered(pages)
    /\ LET hc    == CapturedButtons(pageHistory, pageHistoryIndex, pages, vis)
           point == GetPoint(canvases, p, pt)
       IN  IF tool = "null"
           THEN /\ lastActivePage' = CapturedPage(pages, vis)
                /\ out' = Out(hc, <<>>, <<>>, <<>>)
                /\ UNCHANGED <<isDrawing, hasMoved, currentPath, selection>>
           ELSE IF tool = "inkling"
           THEN /\ lastActivePage' = CapturedPage(pages, vis)
                /\ out' = Out(hc, <<>>, <<>>, <<>>)
                /\ UNCHANGED <<isDrawing, hasMoved, currentPath, selection>>
           ELSE /\ isDrawing' = TRUE
                /\ hasMoved' = FALSE
                /\ lastActivePage' = p
                /\ out' = Out(hc, <<>>, <<>>, <<>>)
                /\ IF tool \in SelTools
                   THEN /\ selection' = Some([pageIndex |-> p,
                                              startX |-> point[1], startY |-> point[2],
                                              endX |-> point[1], endY |-> point[2]])
                        /\ UNCHANGED currentPath
                   ELSE /\ currentPath' = Some(NewPath(tool, point))
                        /\ UNCHANGED selection
    /\ UNCHANGED <<store, surface, tool, pdfDoc, excerpts, loading>>

\* a variant in which no move ever counts as a movement
Crossed_Never(points) == FALSE

\* draw(e): the last point is beyond the move threshold from the first
Crossed(points) ==
    LET p1 == points[1]
        p2 == points[Len(points)]
    IN  Abs(p1[1] - p2[1]) > MoveThreshold \/ Abs(p1[2] - p2[2]) > MoveThreshold

\* a pointer move to pt (window mousemove / touchmove): handleMove, draw(e)
Move(pt) ==
    /\ isDrawing
    /\ LET pageIndex == lastActivePage
           point     == GetPoint(canvases, pageIndex, pt)
       IN  IF tool \in SelTools /\ ~IsNull(selection)
           THEN /\ selection' = Some([The(selection) EXCEPT !.endX = point[1],
                                                            !.endY = point[2]])
                /\ UNCHANGED <<hasMoved, currentPath, shown>>
           ELSE IF IsNull(currentPath)
           THEN UNCHANGED <<hasMoved, currentPath, selection, shown>>
           ELSE LET path == [The(currentPath) EXCEPT !.points = Append(@, point)]
                IN  /\ currentPath' = Some(path)
                    /\ hasMoved' = (hasMoved \/ Crossed(path.points))
                    /\ shown' = IF pageIndex \in DOMAIN canvases
                                THEN MapSet(shown, pageIndex,
                                            [paths |-> RedrawCanvas(pageHistory, pageHistoryIndex,
                                                                    canvases, pageIndex),
                                             live  |-> Some(path)])
                                ELSE shown
                    /\ UNCHANGED selection
    /\ out' = Out(<<>>, <<>>, <<>>, <<>>)
    /\ UNCHANGED <<store, pages, canvases, tool, pdfDoc, isDrawing, lastActivePage,
                   excerpts, loading>>

(* -------------------------- release and excerpt ------------------------ *)
\* a variant that makes every selection 10 px wider and higher
SelectionRect_Padded(sel) ==
    <<Min(sel.startX, sel.endX), Min(sel.startY, sel.endY),
      Abs(sel.endX - sel.startX) + 10, Abs(sel.endY - sel.startY) + 10>>

\* stopDrawing: the rectangle <<x, y, width, height>> of a selection
SelectionRect(sel) ==
    <<Min(sel.startX, sel.endX), Min(sel.startY, sel.endY),
      Abs(sel.endX - sel.startX), Abs(sel.endY - sel.startY)>>

\* historyStack?.[historyIdx ?? -1] ?? []
CurrentPaths(h, ix, p) == ListAt(StackOf(h, p), IndexOf(ix, p))

\* page.getViewport({ scale: 1.0 }): the natural size of a page of the document
MasterSize(p) == IF p = 0 THEN <<2000, 1000>> ELSE <<2, 1>>

\* stands for the non-finite results of a division by a zero display width
NonFinite == 1000000

\* a variant that rounds down
ToMaster_Floor(a, masterWidth, renderWidth) ==
    IF renderWidth = 0 THEN NonFinite ELSE (a * masterWidth) \div renderWidth

\* a variant that never maps a length to less than 1
ToMaster_AtLeastOne(a, masterWidth, renderWidth) ==
    IF renderWidth = 0 THEN NonFinite
    ELSE IF RoundDiv(a, masterWidth, renderWidth) < 1 THEN 1
    ELSE RoundDiv(a, masterWidth, renderWidth)

\* Math.round(a * pdfScale) with pdfScale = masterWidth / renderWidth
ToMaster(a, masterWidth, renderWidth) ==
    IF renderWidth = 0 THEN NonFinite ELSE RoundDiv(a, masterWidth, renderWidth)

\* a release (window mouseup / touchend): handleUp, stopDrawing up to its
\* first await
Release ==
    /\ isDrawing
    /\ LET pageIndex == lastActivePage
       IN  IF tool = "snapshot" /\ ~IsNull(selection)
           THEN LET sel == The(selection)
                    r   == SelectionRect(sel)
                IN  /\ IF r[3] > MinExcerpt /\ r[4] > MinExcerpt /\ pdfDoc
                       THEN /\ excerpts' = Append(excerpts,
                                   [pc |-> "getPage", pageIndex |-> sel.pageIndex, rect |-> r,
                                    crop |-> <<0, 0, 0, 0>>, render |-> <<0, 0>>,
                                    inkAtRequest |-> CurrentPaths(pageHistory, pageHistoryIndex,
                                                                  sel.pageIndex)])
                            /\ UNCHANGED <<isDrawing, selection>>
                       ELSE /\ selection' = Null
                            /\ isDrawing' = FALSE
                            /\ UNCHANGED excerpts
                    /\ out' = Out(<<>>, <<>>, <<>>, <<>>)
                    /\ UNCHANGED <<store, shown, currentPath>>
           ELSE IF tool = "note" /\ ~IsNull(selection)
           THEN LET r == SelectionRect(The(selection))
                IN  /\ out' = Out(<<>>, <<>>,
                                  IF r[3] > MinNote /\ r[4] > MinNote THEN <<r>> ELSE <<>>,
                                  <<>>)
                    /\ selection' = Null
                    /\ isDrawing' = FALSE
                    /\ UNCHANGED <<store, shown, currentPath, excerpts>>
           ELSE LET c == IF ~IsNull(currentPath) /\ hasMoved
                         THEN CommitHistory(pageHistory, pageHistoryIndex, canvases,
                                            pageIndex, The(currentPath))
                         ELSE <<pageHistory, pageHistoryIndex>>
                IN  /\ pageHistory' = c[1]
                    /\ pageHistoryIndex' = c[2]
                    /\ isDrawing' = FALSE
                    /\ currentPath' = Null
                    /\ shown' = Redrawn(shown, c[1], c[2], canvases, pageIndex)
                    /\ out' = Out(<<HistoryButtons(c[1], c[2], pageIndex)>>, <<>>, <<>>, <<>>)
                    /\ UNCHANGED <<selection, excerpts>>
    /\ UNCHANGED <<pages, canvases, tool, pdfDoc, hasMoved, lastActivePage, loading>>

\* a sequence without its i-th element
Without(seq, i) == SubSeq(seq, 1, i - 1) \o SubSeq(seq, i + 1, Len(seq))

\* stopDrawing resumes after `await pdfDoc.getPage(pageIndex + 1)`; ok tells
\* whether the promise was fulfilled
ExcerptGetPage(i, ok) ==
    /\ i \in 1 .. Len(excerpts)
    /\ excerpts[i].pc = "getPage"
    /\ LET t  == excerpts[i]
           p  == t.pageIndex
           present == p < pages /\ p \in DOMAIN canvases
           rw == IF present THEN canvases[p][1] ELSE 0
           rh == IF present THEN canvases[p][2] ELSE 0
           mw == MasterSize(p)[1]
           crop == <<ToMaster(t.rect[1], mw, rw), ToMaster(t.rect[2], mw, rw),
                     ToMaster(t.rect[3], mw, rw), ToMaster(t.rect[4], mw, rw)>>
       IN  IF ok /\ present /\ crop[3] > 0 /\ crop[4] > 0
           THEN /\ excerpts' = [excerpts EXCEPT ![i] =
                                   [t EXCEPT !.pc = "render", !.crop = crop,
                                             !.render = <<rw, rh>>]]
                /\ out' = Out(<<>>, <<>>, <<>>, <<>>)
                /\ UNCHANGED <<selection, isDrawing>>
           ELSE /\ excerpts' = Without(excerpts, i)
                /\ selection' = Null
                /\ isDrawing' = FALSE
                /\ out' = Out(<<>>, <<>>, <<>>,
                              IF ok THEN <<>> ELSE <<"Snapshot Failed">>)
    /\ UNCHANGED <<store, surface, tool, pdfDoc, hasMoved, lastActivePage, currentPath,
                   loading>>

\* a variant that reports the selection as fractions of the master size
ExcerptRender_MasterRect(i, ok) ==
    /\ i \in 1 .. Len(excerpts)
    /\ excerpts[i].pc = "render"
    /\ LET t == excerpts[i]
           p == t.pageIndex
       IN  /\ out' = Out(<<>>,
                         IF ok
                         THEN <<[pageIndex     |-> p,
                                 crop          |-> t.crop,
                                 ink           |-> CurrentPaths(pageHistory, pageHistoryIndex, p),
                                 sourceRelRect |-> <<Div(t.rect[1], MasterSize(p)[1]),
                                                     Div(t.rect[2], MasterSize(p)[2]),
                                                     Div(t.rect[3], MasterSize(p)[1]),
                                                     Div(t.rect[4], MasterSize(p)[2])>>,
                                 aspectRatio   |-> Div(t.crop[4], t.crop[3]),
                                 inkAtRequest  |-> t.inkAtRequest]>>
                         ELSE <<>>,
                         <<>>,
                         IF ok THEN <<>> ELSE <<"Snapshot Failed">>)
    /\ excerpts' = Without(excerpts, i)
    /\ selection' = Null
    /\ isDrawing' = FALSE
    /\ UNCHANGED <<store, surface, tool, pdfDoc, hasMoved, lastActivePage, currentPath,
                   loading>>

\* stopDrawing resumes after `await page.render(...).promise`; ok tells whether
\* the promise was fulfilled
ExcerptRender(i, ok) ==
    /\ i \in 1 .. Len(excerpts)
    /\ excerpts[i].pc = "render"
    /\ LET t == excerpts[i]
           p == t.pageIndex
       IN  /\ out' = Out(<<>>,
                         IF ok
                         THEN <<[pageIndex     |-> p,
                                 crop          |-> t.crop,
                                 ink           |-> CurrentPaths(pageHistory, pageHistoryIndex, p),
                                 sourceRelRect |-> <<Div(t.rect[1], t.render[1]),
                                                     Div(t.rect[2], t.render[2]),
                                                     Div(t.rect[3], t.render[1]),
                                                     Div(t.rect[4], t.render[2])>>,
                                 aspectRatio   |-> Div(t.crop[4], t.crop[3]),
                                 inkAtRequest  |-> t.inkAtRequest]>>
                         ELSE <<>>,
                         <<>>,
                         IF ok THEN <<>> ELSE <<"Snapshot Failed">>)
    /\ excerpts' = Without(excerpts, i)
    /\ selection' = Null
    /\ isDrawing' = FALSE
    /\ UNCHANGED <<store, surface, tool, pdfDoc, hasMoved, lastActivePage, currentPath,
                   loading>>

(* ------------------------------- inputs -------------------------------- *)
\* pointer positions, in pixels relative to the canvas of the gesture
PressPt == <<1, 1>>
NearPt == <<3, 2>>
FarPt == <<7, 8>>

\* the layout size getBoundingClientRect() reports to setupCanvases
LayoutSize == <<60, 30>>
WideSize == <<1000, 500>>

\* the corners of a selection of 200 x 150 px and the end of one of 6 x 1 px
SelStart == <<100, 50>>
SelEnd == <<300, 200>>
FlatPt == <<7, 2>>

\* a pointer position to the right of a canvas laid out at LayoutSize
OutPt == <<70, 8>>

\* the number of stroke-lists the store holds
RECURSIVE ListCount(_, _)
ListCount(h, ps) ==
    IF ps = {} THEN 0
    ELSE LET p == CHOOSE q \in ps : TRUE IN Len(h[p]) + ListCount(h, ps \ {p})

StoreSize == ListCount(pageHistory, DOMAIN pageHistory)

\* an ink gesture may start, and a move may sample one more point
RoomForStroke(max) == tool \in InkTools => StoreSize < max
RoomForPoint(max) == ~IsNull(currentPath) => Len(The(currentPath).points) < max

(* ---------------------------- specification ---------------------------- *)
\* no test scenario is running
NoScenario == [phase |-> "free", log |-> <<>>, k |-> 0]

\* the component after construction, its first render and the effects of that
\* render: the one canvas of the single-canvas layout is attached and
\* setupCanvases(container, 0) has sized it and given page 0 its history
Constructed ==
    /\ pageHistory = [p \in {0} |-> << <<>> >>]
    /\ pageHistoryIndex = [p \in {0} |-> 0]
    /\ pages = 0
    /\ canvases = [p \in {0} |-> LayoutSize]
    /\ shown = [p \in {0} |-> [paths |-> <<>>, live |-> Null]]
    /\ tool = "null"
    /\ pdfDoc = FALSE
    /\ isDrawing = FALSE
    /\ hasMoved = FALSE
    /\ lastActivePage = 0
    /\ currentPath = Null
    /\ selection = Null
    /\ excerpts = <<>>
    /\ isProjectLoading = FALSE
    /\ restoreTimers = Null
    /\ pinupLoading = FALSE
    /\ out = Out(<<<<FALSE, FALSE>>>>, <<>>, <<>>, <<>>)

Init == Constructed /\ scen = NoScenario

\* the history store under ink gestures and the host's commands
Next ==
    \/ \E p \in Pages : SetupCanvases(p, LayoutSize) /\ UNCHANGED scen
    \/ SetPages(NumPages) /\ UNCHANGED scen
    \/ SetTool("draw") /\ UNCHANGED scen
    \/ Undo /\ UNCHANGED scen
    \/ Redo /\ UNCHANGED scen
    \/ \E p \in Pages : RoomForStroke(MaxLists) /\ Press(p, PressPt, p) /\ UNCHANGED scen
    \/ RoomForPoint(MaxPts) /\ Move(FarPt) /\ UNCHANGED scen
    \/ Release /\ UNCHANGED scen

Spec == Init /\ [][Next]_vars

(* ------------------------- undo / redo scenario ------------------------ *)
\* N commits to the freshly initialized page 0, then N undos, then N redos;
\* scen.log records the stroke-list that was current after 0, 1, .. N
\* commits and scen.k counts the undos or redos made so far
ScenarioPage == 0

InitUndoRedo ==
    /\ Constructed
    /\ scen = [phase |-> "commit", log |-> << <<>> >>, k |-> 0]

CommitsMade == Len(scen.log) - 1

NextUndoRedo ==
    \/ /\ scen.phase = "commit" /\ ~isDrawing
       /\ \E t \in InkTools : SetTool(t)
       /\ UNCHANGED scen
    \/ /\ scen.phase = "commit" /\ tool \in InkTools /\ CommitsMade < MaxCommits
       /\ Press(ScenarioPage, PressPt, ScenarioPage)
       /\ UNCHANGED scen
    \/ /\ scen.phase = "commit" /\ RoomForPoint(MaxPts)
       /\ Move(FarPt)
       /\ UNCHANGED scen
    \/ /\ scen.phase = "commit"
       /\ Release
       /\ scen' = [scen EXCEPT !.log =
                      IF pageHistory' # pageHistory
                      THEN Append(@, CurrentPaths(pageHistory', pageHistoryIndex', ScenarioPage))
                      ELSE @]
    \/ /\ ~isDrawing /\ CommitsMade >= 1
       /\ scen.phase = "commit" \/ (scen.phase = "undo" /\ scen.k < CommitsMade)
       /\ Undo
       /\ scen' = [scen EXCEPT !.phase = "undo", !.k = @ + 1]
    \/ /\ (scen.phase = "undo" /\ scen.k = CommitsMade)
          \/ (scen.phase = "redo" /\ scen.k < CommitsMade)
       /\ Redo
       /\ scen' = [scen EXCEPT !.phase = "redo",
                               !.k = IF scen.phase = "undo" THEN 1 ELSE @ + 1]

SpecUndoRedo == InitUndoRedo /\ [][NextUndoRedo]_vars

(* --------------------------- gesture scenario -------------------------- *)
\* single-pointer gestures with every tool; scen.log records the pointer
\* positions of the gesture (the press, then every move), scen.k the page of
\* the press and scen.phase whether the gesture is still open
InitInput ==
    /\ Constructed
    /\ scen = [phase |-> "idle", log |-> <<>>, k |-> 0]

NextInput ==
    \/ /\ ~isDrawing
       /\ \E t \in Tools : SetTool(t)
       /\ UNCHANGED scen
    \/ /\ ~isDrawing
       /\ SetPages(NumPages)
       /\ UNCHANGED scen
    \/ /\ ~isDrawing /\ RoomForStroke(MaxInputLists)
       /\ \E p \in Pages :
             /\ Press(p, PressPt, p)
             /\ scen' = IF tool \in InkTools \cup SelTools
                        THEN [phase |-> "open", log |-> <<PressPt>>, k |-> p]
                        ELSE scen
    \/ /\ isDrawing /\ Len(scen.log) < MaxLog
       /\ \E pt \in {NearPt, FarPt} :
             /\ Move(pt)
             /\ scen' = [scen EXCEPT !.log = Append(@, pt)]
    \/ /\ Release
       /\ scen' = [phase |-> "idle", log |-> <<>>, k |-> 0]

SpecInput == InitInput /\ [][NextInput]_vars

(* ------------------------- persistence scenario ------------------------ *)
\* the store is saved with getAnnotationData() and the project is loaded back;
\* scen.log holds the store as it was when it was saved
InitPersist ==
    /\ Constructed
    /\ scen = [phase |-> "idle", log |-> <<>>, k |-> 0]

\* handleSave, then loadProjectData with the file that was written
SaveAndLoad ==
    LoadProject(ProjectAnnotations(GetAnnotationData(pageHistory, pageHistoryIndex)))

NextPersist ==
    \/ /\ SetTool("draw")
       /\ UNCHANGED scen
    \/ /\ ~isDrawing /\ scen.phase = "idle"
       /\ SetPages(NumPages)
       /\ UNCHANGED scen
    \/ /\ scen.phase = "idle"
       /\ \E p \in Pages : SetupCanvases(p, LayoutSize)
       /\ UNCHANGED scen
    \/ /\ scen.phase = "idle" /\ RoomForStroke(MaxLists)
       /\ \E p \in Pages : Press(p, PressPt, p)
       /\ UNCHANGED scen
    \/ /\ RoomForPoint(MaxPts)
       /\ Move(FarPt)
       /\ UNCHANGED scen
    \/ /\ Release
       /\ UNCHANGED scen
    \/ /\ scen.phase = "idle"
       /\ Undo
       /\ UNCHANGED scen
    \/ /\ scen.phase = "idle"
       /\ Redo
       /\ UNCHANGED scen
    \/ /\ ~isDrawing /\ scen.phase = "idle"
       /\ SaveAndLoad
       /\ scen' = [phase |-> "restored", log |-> <<pageHistory, pageHistoryIndex>>, k |-> 0]
    \/ /\ \E p \in Pages : RestoreTimer(p)
       /\ UNCHANGED scen
    \/ /\ LoadComplete
       /\ UNCHANGED scen

SpecPersist == InitPersist /\ [][NextPersist]_vars

(* ------------------------ damaged-project scenario --------------------- *)
\* a stroke as a project file holds it
FileStroke == RelativePath(NewPath("draw", PressPt), LayoutSize[1], LayoutSize[2])

\* pdfAnnotations of project files that getAnnotationData() did not write: the
\* index mapping absent; the mappings not arrays of entries; a page with a
\* stack but no index; an index outside its stack
DamagedAnnotations ==
    { [history |-> Some(<< <<0, << <<>>, <<FileStroke>> >> >> >>),
       historyIndex |-> Null, entries |-> TRUE],
      [history |-> Some(<<>>), historyIndex |-> Some(<<>>), entries |-> FALSE],
      [history |-> Some(<< <<0, << <<>>, <<FileStroke>> >> >> >>),
       historyIndex |-> Some(<<>>), entries |-> TRUE],
      [history |-> Some(<< <<0, << <<>>, <<FileStroke>> >> >> >>),
       historyIndex |-> Some(<< <<0, 2>> >>), entries |-> TRUE] }

NextDamaged ==
    \/ SetTool("draw") /\ UNCHANGED scen
    \/ ~isDrawing /\ SetPages(NumPages) /\ UNCHANGED scen
    \/ ~isDrawing /\ InitializePages(NumPages) /\ UNCHANGED scen
    \/ ~isDrawing /\ Clear /\ UNCHANGED scen
    \/ /\ ~isDrawing
       /\ \E vis \in Pages : ActivatePage(vis)
       /\ UNCHANGED scen
    \/ RoomForStroke(MaxInputLists) /\ Press(0, PressPt, 0) /\ UNCHANGED scen
    \/ RoomForPoint(MaxPts) /\ Move(FarPt) /\ UNCHANGED scen
    \/ Release /\ UNCHANGED scen
    \/ Undo /\ UNCHANGED scen
    \/ Redo /\ UNCHANGED scen
    \/ /\ ~isDrawing
       /\ \E d \in DamagedAnnotations : LoadProject(Some(d))
       /\ UNCHANGED scen
    \/ /\ \E p \in Pages : RestoreTimer(p)
       /\ UNCHANGED scen
    \/ LoadComplete /\ UNCHANGED scen

SpecDamaged == Init /\ [][NextDamaged]_vars

(* --------------------------- excerpt scenario -------------------------- *)
\* ink gestures, undo, redo and clear while excerpts of a loaded document are in flight
NextExcerpt ==
    \/ SetPdfDoc(TRUE) /\ UNCHANGED scen
    \/ ~isDrawing /\ SetPages(NumPages) /\ UNCHANGED scen
    \/ /\ \E t \in {"draw", "snapshot"} : SetTool(t)
       /\ UNCHANGED scen
    \/ /\ RoomForStroke(MaxInputLists)
       /\ Press(0, PressPt, 0)
       /\ UNCHANGED scen
    \/ RoomForPoint(MaxPts) /\ Move(FarPt) /\ UNCHANGED scen
    \/ /\ (tool = "snapshot" /\ ~IsNull(selection)) => Len(excerpts) < MaxInFlight
       /\ Release
       /\ UNCHANGED scen
    \/ /\ \E i \in 1 .. MaxInFlight, ok \in BOOLEAN : ExcerptGetPage(i, ok)
       /\ UNCHANGED scen
    \/ /\ \E i \in 1 .. MaxInFlight, ok \in BOOLEAN : ExcerptRender(i, ok)
       /\ UNCHANGED scen
    \/ Undo /\ UNCHANGED scen
    \/ Redo /\ UNCHANGED scen
    \/ Clear /\ UNCHANGED scen

SpecExcerpt == Init /\ [][NextExcerpt]_vars

(* --------------------------- command scenario -------------------------- *)
\* pdfAnnotations of a project file saved with one stroke on page 1
SavedProject ==
    [history      |-> Some(<< <<1, << <<>>, <<FileStroke>> >> >> >>),
     historyIndex |-> Some(<< <<1, 1>> >>),
     entries      |-> TRUE]

\* the stroke-lists of the store beyond the initial one of each page
ListsBeyondInitial == StoreSize - Cardinality(DOMAIN pageHistory)

\* scen after the command op with the arguments args: scen.k is the number of
\* stroke-lists beyond the initial ones that the store held before it
After(op, args) == [phase |-> op, log |-> args, k |-> ListsBeyondInitial]

\* the commands of the handle, surface bindings (page 0 at two sizes) and
\* project loads between ink gestures; after a clear, scen.phase stays "clear"
\* through undo and redo
NextCommands ==
    \/ /\ SetTool("draw")
       /\ scen' = After("free", <<>>)
    \/ /\ ~isDrawing
       /\ SetPages(NumPages)
       /\ scen' = After("free", <<>>)
    \/ /\ ~isDrawing
       /\ \E p \in Pages, size \in {LayoutSize, DefaultSize} :
             /\ p # 0 => size = LayoutSize
             /\ SetupCanvases(p, size)
             /\ scen' = After("setupCanvases", <<p>>)
    \/ /\ RoomForStroke(MaxInputLists)
       /\ \E p \in Pages : Press(p, PressPt, p)
       /\ scen' = After("free", <<>>)
    \/ /\ RoomForPoint(MaxPts)
       /\ Move(FarPt)
       /\ scen' = After("free", <<>>)
    \/ /\ Release
       /\ scen' = After("free", <<>>)
    \/ /\ Undo
       /\ scen' = IF scen.phase = "clear" THEN scen ELSE After("undo", <<>>)
    \/ /\ Redo
       /\ scen' = IF scen.phase = "clear" THEN scen ELSE After("redo", <<>>)
    \/ /\ ~isDrawing
       /\ Clear
       /\ scen' = After("clear", <<>>)
    \/ /\ ~isDrawing
       /\ \E n \in 1 .. NumPages :
             /\ InitializePages(n)
             /\ scen' = After("initializePages", <<n>>)
    \/ /\ ~isDrawing
       /\ LoadProject(Some(SavedProject))
       /\ scen' = After("free", <<>>)
    \/ /\ \E p \in Pages : RestoreTimer(p)
       /\ scen' = After("free", <<>>)
    \/ /\ LoadComplete
       /\ scen' = After("free", <<>>)

SpecCommands == Init /\ [][NextCommands]_vars

(* -------------------------- selection scenario ------------------------- *)
\* selections of several sizes with the excerpt and the note tool, on pages
\* laid out at several widths, and the excerpts they start
\* excerpt i is awaiting getPage and the element of its page is laid out
Mappable(i) ==
    /\ i \in 1 .. Len(excerpts)
    /\ excerpts[i].pc = "getPage"
    /\ excerpts[i].pageIndex < pages
    /\ excerpts[i].pageIndex \in DOMAIN canvases

\* the mapped width or height of excerpt i is <= 0 after rounding
Degenerate(i) ==
    LET t == excerpts[i]
        M == MasterSize(t.pageIndex)[1]
        D == canvases[t.pageIndex][1]
    IN  2 * t.rect[3] * M < D \/ 2 * t.rect[4] * M < D

NextSelect ==
    \/ SetPdfDoc(TRUE) /\ UNCHANGED scen
    \/ ~isDrawing /\ SetPages(NumPages) /\ UNCHANGED scen
    \/ /\ ~isDrawing
       /\ \E p \in Pages, size \in {LayoutSize, WideSize} : SetupCanvases(p, size)
       /\ UNCHANGED scen
    \/ /\ ~isDrawing
       /\ \E t \in SelTools : SetTool(t)
       /\ UNCHANGED scen
    \/ /\ Len(excerpts) < MaxInFlight
       /\ \E p \in Pages, pt \in {PressPt, SelStart} : Press(p, pt, p)
       /\ UNCHANGED scen
    \/ /\ \E pt \in {NearPt, FarPt, FlatPt, SelEnd} : Move(pt)
       /\ UNCHANGED scen
    \/ /\ (tool = "snapshot" /\ ~IsNull(selection)) => Len(excerpts) < MaxInFlight
       /\ Release
       /\ UNCHANGED scen
    \/ /\ \E i \in 1 .. MaxInFlight, ok \in BOOLEAN :
             /\ ExcerptGetPage(i, ok)
             /\ scen' = IF ok /\ Mappable(i) /\ Degenerate(i)
                        THEN [NoScenario EXCEPT !.phase = "dropped"]
                        ELSE NoScenario
    \/ /\ \E i \in 1 .. MaxInFlight, ok \in BOOLEAN : ExcerptRender(i, ok)
       /\ UNCHANGED scen

SpecSelect == Init /\ [][NextSelect]_vars

(* ----------------------- resized-gesture scenario ---------------------- *)
\* the sizes at which the positions of scen.log were sampled differ
LogResized == \E i, j \in 1 .. Len(scen.log) : scen.log[i][2] # scen.log[j][2]

\* the size of the canvas of page p, <<0, 0>> when it has none
SizeOf(p) == IF p \in DOMAIN canvases THEN canvases[p] ELSE <<0, 0>>

\* stroke and selection gestures on the first page, dragged to FarPt and then
\* out of the canvas, during which the page is resized and another mouse button
\* is pressed; scen.log holds, for the press and every move, the
\* pointer position and the size the canvas of the pressed page had then,
\* scen.k the pressed page; after a release scen.phase tells whether the
\* gesture saw a resize
NextGesture ==
    \/ /\ ~isDrawing
       /\ \E t \in {"draw", "snapshot"} : SetTool(t)
       /\ UNCHANGED scen
    \/ /\ ~isDrawing
       /\ SetPages(NumPages)
       /\ UNCHANGED scen
    \/ /\ isDrawing
       /\ \E size \in {LayoutSize, DefaultSize} : SetupCanvases(scen.k, size)
       /\ UNCHANGED scen
    \/ /\ isDrawing
       /\ \E vis \in Pages : ActivatePage(vis)
       /\ UNCHANGED scen
    \/ /\ ~isDrawing /\ RoomForStroke(MaxInputLists)
       /\ Press(ScenarioPage, PressPt, ScenarioPage)
       /\ scen' = IF tool \in InkTools \cup SelTools
                  THEN [phase |-> "open", log |-> << <<PressPt, SizeOf(ScenarioPage)>> >>,
                        k |-> ScenarioPage]
                  ELSE scen
    \/ /\ isDrawing /\ Len(scen.log) < MaxLog
       /\ LET pt == IF Len(scen.log) = 1 THEN FarPt ELSE OutPt
          IN  /\ Move(pt)
              /\ scen' = [scen EXCEPT !.log = Append(@, <<pt, SizeOf(scen.k)>>)]
    \/ /\ Release
       /\ scen' = [phase |-> IF LogResized THEN "resized" ELSE "idle",
                   log |-> <<>>, k |-> 0]

InitGesture ==
    /\ Constructed
    /\ scen = [phase |-> "idle", log |-> <<>>, k |-> 0]

SpecGesture == InitGesture /\ [][NextGesture]_vars

(* --------------------------- styles scenario --------------------------- *)
\* strokes of every ink tool on the single canvas, with undo, redo, resizes
\* and saves followed by loads; scen.phase is the tool of the last press,
\* scen.k the number of loads made
NextStyles ==
    \/ /\ ~isDrawing
       /\ \E t \in InkTools : SetTool(t)
       /\ UNCHANGED scen
    \/ /\ \E size \in {LayoutSize, DefaultSize} : SetupCanvases(ScenarioPage, size)
       /\ UNCHANGED scen
    \/ /\ ~isDrawing /\ tool \in InkTools /\ StoreSize <= MaxInputLists
       /\ Press(ScenarioPage, PressPt, ScenarioPage)
       /\ scen' = [scen EXCEPT !.phase = tool]
    \/ /\ RoomForPoint(MaxPts)
       /\ Move(FarPt)
       /\ UNCHANGED scen
    \/ /\ Release
       /\ UNCHANGED scen
    \/ /\ ~isDrawing
       /\ Undo
       /\ UNCHANGED scen
    \/ /\ ~isDrawing
       /\ Redo
       /\ UNCHANGED scen
    \/ /\ ~isDrawing /\ scen.k < MaxInFlight
       /\ SaveAndLoad
       /\ scen' = [scen EXCEPT !.k = @ + 1]
    \/ /\ \E p \in Pages : RestoreTimer(p)
       /\ UNCHANGED scen
    \/ /\ LoadComplete
       /\ UNCHANGED scen

InitStyles ==
    /\ Constructed
    /\ scen = [phase |-> "idle", log |-> <<>>, k |-> 0]

SpecStyles == InitStyles /\ [][NextStyles]_vars

(* -------------------------- smoothing scenario ------------------------- *)
\* the Path2D objects redrawCanvas(p) strokes
StrokedBy(h, ix, cv, p) ==
    IF p \in DOMAIN cv
    THEN StrokedPaths(RedrawCanvas(h, ix, cv, p), cv[p][1], cv[p][2])
    ELSE <<>>

\* stroke gestures, undo, redo and excerpts on the first page; scen.log holds
\* the Path2D objects of the last drawing made and scen.phase tells which
\* drawing it was
NextSmooth ==
    \/ /\ ~isDrawing
       /\ \E t \in {"draw", "snapshot"} : SetTool(t)
       /\ UNCHANGED scen
    \/ /\ SetPdfDoc(TRUE)
       /\ UNCHANGED scen
    \/ /\ ~isDrawing
       /\ SetPages(NumPages)
       /\ UNCHANGED scen
    \/ /\ ~isDrawing /\ RoomForStroke(MaxInputLists) /\ Len(excerpts) < MaxInFlight
       /\ Press(ScenarioPage, PressPt, ScenarioPage)
       /\ UNCHANGED scen
    \/ /\ RoomForPoint(MaxLog)
       /\ \E pt \in {NearPt, FarPt} :
             /\ Move(pt)
             /\ scen' = IF currentPath' # currentPath
                        THEN [phase |-> "live", log |-> <<LivePath(The(currentPath'))>>, k |-> 0]
                        ELSE scen
    \/ /\ (tool = "snapshot" /\ ~IsNull(selection)) => Len(excerpts) < MaxInFlight
       /\ Release
       /\ scen' = IF tool = "snapshot" /\ ~IsNull(selection)
                  THEN scen
                  ELSE [phase |-> "redraw",
                        log |-> StrokedBy(pageHistory', pageHistoryIndex', canvases,
                                          lastActivePage),
                        k |-> 0]
    \/ /\ ~isDrawing
       /\ Undo
       /\ scen' = IF pageHistoryIndex' # pageHistoryIndex
                  THEN [phase |-> "redraw",
                        log |-> StrokedBy(pageHistory, pageHistoryIndex', canvases,
                                          lastActivePage),
                        k |-> 0]
                  ELSE scen
    \/ /\ ~isDrawing
       /\ Redo
       /\ scen' = IF pageHistoryIndex' # pageHistoryIndex
                  THEN [phase |-> "redraw",
                        log |-> StrokedBy(pageHistory, pageHistoryIndex', canvases,
                                          lastActivePage),
                        k |-> 0]
                  ELSE scen
    \/ /\ \E i \in 1 .. MaxInFlight : ExcerptGetPage(i, TRUE)
       /\ UNCHANGED scen
    \/ /\ \E i \in 1 .. MaxInFlight :
             /\ ExcerptRender(i, TRUE)
             /\ scen' = [phase |-> "excerpt",
                         log |-> StrokedPaths(CurrentPaths(pageHistory, pageHistoryIndex,
                                                           excerpts[i].pageIndex),
                                              MasterSize(excerpts[i].pageIndex)[1],
                                              MasterSize(excerpts[i].pageIndex)[2]),
                         k |-> 0]

InitSmooth ==
    /\ Constructed
    /\ scen = [phase |-> "idle", log |-> <<>>, k |-> 0]

SpecSmooth == InitSmooth /\ [][NextSmooth]_vars

(* --------------------------- overlap scenario -------------------------- *)
\* the excerpt at rank i was requested before the press of the current gesture
RequestedBefore(i) == i <= scen.log[1]

\* gestures made while excerpts are in flight, and releases repeated while the
\* excerpt of the gesture is in flight; scen.phase is "open" from a press to
\* the first release after it; excerpts are appended in the order of their
\* requests, scen.log[1] is the number of those in flight that were requested
\* before the last press and scen.k the number of excerpt results emitted
\* since then for requests made since then
NextOverlap ==
    \/ /\ SetPdfDoc(TRUE)
       /\ UNCHANGED scen
    \/ /\ ~isDrawing
       /\ SetPages(NumPages)
       /\ UNCHANGED scen
    \/ /\ scen.phase # "open"
       /\ \E t \in {"draw", "snapshot"} : SetTool(t)
       /\ UNCHANGED scen
    \/ /\ scen.phase # "open" \/ ~isDrawing
       /\ tool \in {"draw", "snapshot"} /\ RoomForStroke(MaxInputLists)
       /\ Press(ScenarioPage, PressPt, ScenarioPage)
       /\ scen' = [phase |-> "open", log |-> <<Len(excerpts)>>, k |-> 0]
    \/ /\ RoomForPoint(MaxPts)
       /\ Move(FarPt)
       /\ UNCHANGED scen
    \/ /\ (tool = "snapshot" /\ ~IsNull(selection)) => Len(excerpts) <= MaxInFlight
       /\ Release
       /\ scen' = [scen EXCEPT !.phase = IF @ = "open" THEN "released" ELSE @]
    \/ /\ \E i \in 1 .. MaxInFlight + 1, ok \in BOOLEAN :
             /\ ExcerptGetPage(i, ok)
             /\ scen' = IF Len(excerpts') < Len(excerpts) /\ RequestedBefore(i)
                        THEN [scen EXCEPT !.log = <<@[1] - 1>>]
                        ELSE scen
    \/ /\ \E i \in 1 .. MaxInFlight + 1, ok \in BOOLEAN :
             /\ ExcerptRender(i, ok)
             /\ scen' = IF RequestedBefore(i)
                        THEN [scen EXCEPT !.log = <<@[1] - 1>>]
                        ELSE [scen EXCEPT !.k = @ + Len(out'.snap)]

InitOverlap ==
    /\ Constructed
    /\ scen = [phase |-> "idle", log |-> <<0>>, k |-> 0]

SpecOverlap == InitOverlap /\ [][NextOverlap]_vars

(* ----------------------------- load scenario --------------------------- *)
\* loads of projects with and without annotations of either canvas, between
\* ink gestures
NextLoad ==
    \/ /\ SetTool("draw")
       /\ UNCHANGED scen
    \/ /\ ~isDrawing
       /\ SetPages(NumPages)
       /\ UNCHANGED scen
    \/ /\ RoomForStroke(MaxInputLists)
       /\ \E p \in Pages : Press(p, PressPt, p)
       /\ UNCHANGED scen
    \/ /\ RoomForPoint(MaxPts)
       /\ Move(FarPt)
       /\ UNCHANGED scen
    \/ /\ Release
       /\ UNCHANGED scen
    \/ /\ ~isDrawing
       /\ \E data \in {Null, Some(SavedProject)} \cup {Some(d) : d \in DamagedAnnotations},
             pinup \in BOOLEAN :
             LoadProjectData(data, pinup)
       /\ UNCHANGED scen
    \/ /\ \E p \in Pages : RestoreTimer(p)
       /\ UNCHANGED scen
    \/ /\ LoadComplete
       /\ UNCHANGED scen
    \/ /\ PinupLoadComplete
       /\ UNCHANGED scen

\* timers fire and settled promises run their callbacks
LoadFairness ==
    /\ WF_vars((\E p \in Pages : RestoreTimer(p)) /\ UNCHANGED scen)
    /\ WF_vars(LoadComplete /\ UNCHANGED scen)
    /\ WF_vars(PinupLoadComplete /\ UNCHANGED scen)

SpecLoad == Init /\ [][NextLoad]_vars /\ LoadFairness

(* ------------------------- notification scenario ----------------------- *)
\* the host keeps the arguments of the last onHistoryChange call as its
\* canUndo / canRedo state (handlePdfHistoryChange); scen.log holds them,
\* FALSE and FALSE before the first call
HostButtons(op) ==
    scen' = [phase |-> op,
             log   |-> IF out'.hc = <<>> THEN scen.log ELSE out'.hc[Len(out'.hc)],
             k     |-> 0]

InitButtons ==
    /\ Constructed
    /\ scen = [phase |-> "mounted", log |-> <<FALSE, FALSE>>, k |-> 0]

NextButtons ==
    \/ SetTool("draw") /\ HostButtons("setTool")
    \/ ~isDrawing /\ SetPages(NumPages) /\ HostButtons("setPages")
    \/ /\ ~isDrawing
       /\ \E p \in Pages : SetupCanvases(p, LayoutSize)
       /\ HostButtons("setupCanvases")
    \/ /\ ~isDrawing
       /\ \E vis \in Pages : ActivatePage(vis)
       /\ HostButtons("activatePage")
    \/ /\ RoomForStroke(MaxInputLists)
       /\ \E p \in Pages : Press(p, PressPt, p)
       /\ HostButtons("press")
    \/ RoomForPoint(MaxPts) /\ Move(FarPt) /\ HostButtons("move")
    \/ Release /\ HostButtons("release")
    \/ ~isDrawing /\ Undo /\ HostButtons("undo")
    \/ ~isDrawing /\ Redo /\ HostButtons("redo")
    \/ ~isDrawing /\ Clear /\ HostButtons("clear")
    \/ /\ ~isDrawing
       /\ \E n \in 1 .. NumPages : InitializePages(n)
       /\ HostButtons("initializePages")
    \/ ~isDrawing /\ LoadProject(Some(SavedProject)) /\ HostButtons("loadProject")
    \/ (\E p \in Pages : RestoreTimer(p)) /\ HostButtons("restoreTimer")
    \/ LoadComplete /\ HostButtons("loadComplete")

SpecButtons == InitButtons /\ [][NextButtons]_vars

(* ------------------------- vocabulary of the claims -------------------- *)
\* canUndo and canRedo of a page
CanUndo(h, ix, p) == IndexOf(ix, p) > 0
CanRedo(h, ix, p) == IndexOf(ix, p) < Len(StackOf(h, p)) - 1

\* this step is a release that calls commitHistory for page p
CommitsTo(p) ==
    /\ Release
    /\ ~(tool \in SelTools /\ ~IsNull(selection))
    /\ ~IsNull(currentPath)
    /\ hasMoved
    /\ lastActivePage = p

\* the canvas of page p is attached and has a width
HasSurface(p) == p \in DOMAIN canvases /\ canvases[p][1] # 0

\* list b is list a followed by one stroke made from the in-progress stroke
ExtendsByCurrentPath(a, b) ==
    /\ Len(b) = Len(a) + 1
    /\ SubSeq(b, 1, Len(a)) = a
    /\ b[Len(b)].tool = The(currentPath).tool
    /\ Len(b[Len(b)].points) = Len(The(currentPath).points)

(* -------------------------------- C2 ----------------------------------- *)
\* C2: a commit on a page whose currentIndex is i (0 <= i < length) keeps the
\* lists 0..i, drops every list after i, appends one list equal to the list
\* at i followed by the new stroke, and leaves length = i + 2, currentIndex =
\* i + 1 and canRedo false.
C2_CommitTruncatesAndAppends ==
    [][\A p \in Pages :
         LET stack == StackOf(pageHistory, p)
             i     == IndexOf(pageHistoryIndex, p)
             after == StackOf(pageHistory', p)
         IN  (CommitsTo(p) /\ HasSurface(p) /\ 0 <= i /\ i < Len(stack))
             => /\ Len(after) = i + 2
                /\ IndexOf(pageHistoryIndex', p) = i + 1
                /\ SubSeq(after, 1, i + 1) = SubSeq(stack, 1, i + 1)
                /\ ExtendsByCurrentPath(stack[i + 1], after[i + 2])
                /\ ~CanRedo(pageHistory', pageHistoryIndex', p)]_vars

\* C2 witness: a commit has just been made on top of two earlier lists
C2_Witness ==
    \E p \in DOMAIN pageHistory :
        /\ Len(pageHistory[p]) >= 3
        /\ IndexOf(pageHistoryIndex, p) = Len(pageHistory[p]) - 1
        /\ ~isDrawing /\ hasMoved /\ lastActivePage = p
        /\ out.hc = <<<<TRUE, FALSE>>>>

(* -------------------------------- C5 ----------------------------------- *)
\* C5: committing a stroke to a page that has no history entry is a silent
\* no-op: no history is created for that page and no other page changes.
C5_CommitToUninitializedIsNoOp ==
    [][\A p \in Pages :
         (CommitsTo(p) /\ p \notin DOMAIN pageHistory)
         => UNCHANGED <<pageHistory, pageHistoryIndex>>]_vars

(* -------------------------------- C10 ---------------------------------- *)
\* C10: undo with currentIndex <= 0 (or no history) and redo at the tail are
\* no-ops on every page's stack and currentIndex; otherwise undo decreases and
\* redo increases the active page's currentIndex by exactly 1 and changes
\* nothing else of the store, the surfaces or the gesture.
C10_UndoRedoStep ==
    [][LET p == lastActivePage
           i == IndexOf(pageHistoryIndex, p)
           n == Len(StackOf(pageHistory, p))
           others == \A q \in Pages \ {p} :
                        IndexOf(pageHistoryIndex', q) = IndexOf(pageHistoryIndex, q)
           rest == UNCHANGED <<pageHistory, pages, canvases, tool, pdfDoc, gesture,
                               excerpts, loading>>
       IN  /\ (Undo /\ i <= 0) => UNCHANGED <<store, gesture>>
           /\ (Redo /\ i >= n - 1) => UNCHANGED <<store, gesture>>
           /\ (Undo /\ i > 0)
              => IndexOf(pageHistoryIndex', p) = i - 1 /\ others /\ rest
           /\ (Redo /\ i < n - 1)
              => IndexOf(pageHistoryIndex', p) = i + 1 /\ others /\ rest]_vars

\* C10 witness: an undo has moved the active page off the tail of a stack of
\* three lists, where both a further undo and a redo are possible
C10_Witness ==
    /\ Len(StackOf(pageHistory, lastActivePage)) = 3
    /\ IndexOf(pageHistoryIndex, lastActivePage) = 1
    /\ out.hc = <<<<TRUE, TRUE>>>>

(* -------------------------------- C3 ----------------------------------- *)
\* C3: after N commits to a freshly initialized page, the k-th undo makes
\* current the stroke-list that was current after N - k commits and the k-th
\* redo the one that was current after k commits; the stack is not changed by
\* undo or redo (it stays the sequence of those N + 1 lists).
C3_UndoRedoReplaysLists ==
    /\ scen.phase = "undo"
       => /\ CurrentPaths(pageHistory, pageHistoryIndex, ScenarioPage)
               = scen.log[CommitsMade - scen.k + 1]
          /\ StackOf(pageHistory, ScenarioPage) = scen.log
    /\ scen.phase = "redo"
       => /\ CurrentPaths(pageHistory, pageHistoryIndex, ScenarioPage)
               = scen.log[scen.k + 1]
          /\ StackOf(pageHistory, ScenarioPage) = scen.log

\* C3 witness: two commits have been undone and redone in full
C3_Witness ==
    /\ scen.phase = "redo"
    /\ CommitsMade >= 2
    /\ scen.k = CommitsMade
    /\ scen.log[2] # scen.log[3]

(* ------------------------------ C4, C9 --------------------------------- *)
\* the gesture of the scenario went beyond the move threshold at some move
LogCrossed ==
    \E i \in 2 .. Len(scen.log) :
        \/ Abs(scen.log[i][1] - scen.log[1][1]) > MoveThreshold
        \/ Abs(scen.log[i][2] - scen.log[1][2]) > MoveThreshold

\* the positions pts as fractions of the canvas of page p
Normalized(pts, p) ==
    [i \in 1 .. Len(pts) |-> <<Div(pts[i][1], canvases[p][1]), Div(pts[i][2], canvases[p][2])>>]

\* this step adds exactly one stroke, with the points pts, to the current
\* list of page p and leaves every other page as it was
CommitsOneStroke(p, pts) ==
    LET before == CurrentPaths(pageHistory, pageHistoryIndex, p)
        after  == CurrentPaths(pageHistory', pageHistoryIndex', p)
    IN  /\ Len(after) = Len(before) + 1
        /\ SubSeq(after, 1, Len(before)) = before
        /\ after[Len(after)].points = Normalized(pts, p)
        /\ \A q \in Pages \ {p} :
              /\ StackOf(pageHistory', q) = StackOf(pageHistory, q)
              /\ IndexOf(pageHistoryIndex', q) = IndexOf(pageHistoryIndex, q)

\* C4: a press and release with no movement beyond the threshold commits, with
\* the draw or highlight tool, exactly one stroke of exactly 1 point (the
\* press point) to the pressed page; with a selection tool it commits nothing
\* and emits no excerpt or note event.
C4_TapCommitsDot ==
    [][(Release /\ scen.phase = "open" /\ ~LogCrossed)
       => /\ tool \in {"draw", "highlight"}
             => CommitsOneStroke(scen.k, <<scen.log[1]>>)
          /\ tool \in SelTools
             => /\ UNCHANGED <<store, excerpts>>
                /\ out'.snap = <<>>
                /\ out'.note = <<>>]_vars

\* C9: a stroke gesture with at least one move more than 2 px from the press
\* point along x or along y commits on release exactly one stroke to the
\* pressed page, made of the press point followed by every sampled move point
\* in order, and leaves the machine Idle with no in-progress stroke.
C9_DragCommitsStroke ==
    [][(Release /\ scen.phase = "open" /\ tool \in InkTools /\ LogCrossed)
       => /\ CommitsOneStroke(scen.k, scen.log)
          /\ ~isDrawing'
          /\ IsNull(currentPath')]_vars

\* C9 witness: a gesture of a press, a move within the threshold and a move
\* beyond it has been released, and its stroke of three points is the last
\* stroke of page 1
C9_Witness ==
    /\ ~isDrawing
    /\ IsNull(currentPath)
    /\ scen.phase = "idle"
    /\ Len(CurrentPaths(pageHistory, pageHistoryIndex, 1)) >= 1
    /\ LET l == CurrentPaths(pageHistory, pageHistoryIndex, 1)
       IN  l[Len(l)].points = Normalized(<<PressPt, NearPt, FarPt>>, 1)

(* ---------------------------- C1, C6, C7, C8 --------------------------- *)
\* C1: after any sequence of initializations, surface bindings, commits, undos,
\* redos, clears and restores, every page that has a history has
\* 0 <= currentIndex < strokeListStack.length.
C1_IndexInRange ==
    \A p \in DOMAIN pageHistory :
        /\ 0 <= IndexOf(pageHistoryIndex, p)
        /\ IndexOf(pageHistoryIndex, p) < Len(pageHistory[p])

\* C6 as stated: restoring the store from its own persistence snapshot yields,
\* for every page, the same canUndo, the same canRedo and the same current
\* stroke-list as before the snapshot.
C6_RoundTripKeepsAll ==
    [][SaveAndLoad
       => \A p \in Pages :
             /\ CanUndo(pageHistory', pageHistoryIndex', p)
                = CanUndo(pageHistory, pageHistoryIndex, p)
             /\ CanRedo(pageHistory', pageHistoryIndex', p)
                = CanRedo(pageHistory, pageHistoryIndex, p)
             /\ CurrentPaths(pageHistory', pageHistoryIndex', p)
                = CurrentPaths(pageHistory, pageHistoryIndex, p)]_vars

\* C6 amended: restoring the store from its own persistence snapshot yields,
\* for every page, the same canUndo and the same current stroke-list as before
\* the snapshot, and canRedo false: the lists after the current one are not
\* saved.
C6_RoundTripKeepsCurrent ==
    [][SaveAndLoad
       => \A p \in Pages :
             /\ CanUndo(pageHistory', pageHistoryIndex', p)
                = CanUndo(pageHistory, pageHistoryIndex, p)
             /\ ~CanRedo(pageHistory', pageHistoryIndex', p)
             /\ CurrentPaths(pageHistory', pageHistoryIndex', p)
                = CurrentPaths(pageHistory, pageHistoryIndex, p)]_vars

\* C6 witness: a store in which page 0 could undo and redo has been saved and
\* loaded back, and page 0 still shows its stroke
C6_Witness ==
    /\ scen.phase = "restored"
    /\ CanUndo(scen.log[1], scen.log[2], 0)
    /\ CanRedo(scen.log[1], scen.log[2], 0)
    /\ IsNull(restoreTimers)
    /\ Len(CurrentPaths(pageHistory, pageHistoryIndex, 0)) = 1
    /\ CurrentPaths(pageHistory, pageHistoryIndex, 0) = CurrentPaths(scen.log[1], scen.log[2], 0)

\* C7: restoring from a payload whose stroke-list mapping or index mapping is
\* missing or not well-formed takes the corrupt-project path: no page keeps a
\* stroke or an index outside its stack, and a warning is shown.
C7_DamagedPayloadIsRejected ==
    [][(\E d \in DamagedAnnotations : LoadProject(Some(d)))
       => /\ DOMAIN pageHistoryIndex' = DOMAIN pageHistory'
          /\ \A p \in DOMAIN pageHistory' :
                /\ 0 <= IndexOf(pageHistoryIndex', p)
                /\ IndexOf(pageHistoryIndex', p) < Len(pageHistory'[p])
                /\ \A i \in 1 .. Len(pageHistory'[p]) : pageHistory'[p][i] = <<>>
          /\ out'.toast # <<>>]_vars

\* C8: the ink composited into an excerpt is the committed stroke-list of its
\* page as it was at the release of the selection, whatever commit, undo or
\* redo happened while the page render was in flight.
C8_ExcerptInkIsInkAtRequest ==
    \A k \in 1 .. Len(out.snap) : out.snap[k].ink = out.snap[k].inkAtRequest

(* ------------------------------ C13, C14 ------------------------------- *)
\* the pages whose current stroke-list holds a stroke
PagesWithInk(h, ix) == {p \in DOMAIN h : Len(CurrentPaths(h, ix, p)) > 0}

\* the keys of an array of [key, value] entries
KeysOf(entries) == {entries[i][1] : i \in 1 .. Len(entries)}

\* C13: the persistence snapshot contains exactly the pages whose current
\* state is beyond the empty initial one; for each it stores the stack
\* truncated to indices 0..currentIndex and the value currentIndex; when no
\* page qualifies the result is 'nothing to save'.
C13_SnapshotContents ==
    [][SaveAndLoad
       => LET d    == GetAnnotationData(pageHistory, pageHistoryIndex)
              keep == PagesWithInk(pageHistory, pageHistoryIndex)
          IN  IF keep = {} THEN IsNull(d)
              ELSE /\ ~IsNull(d)
                   /\ Len(The(d).history) = Cardinality(keep)
                   /\ Len(The(d).historyIndex) = Cardinality(keep)
                   /\ KeysOf(The(d).history) = keep
                   /\ KeysOf(The(d).historyIndex) = keep
                   /\ \A i \in 1 .. Len(The(d).history) :
                         LET e == The(d).history[i]
                         IN  e[2] = SubSeq(pageHistory[e[1]], 1, pageHistoryIndex[e[1]] + 1)
                   /\ \A i \in 1 .. Len(The(d).historyIndex) :
                         LET e == The(d).historyIndex[i]
                         IN  e[2] = pageHistoryIndex[e[1]]]_vars

\* C13 witness: a store was saved in which page 0 had a stroke and a list to
\* redo and page 1 had a history without ink; only page 0 came back
C13_Witness ==
    /\ scen.phase = "restored"
    /\ DOMAIN scen.log[1] = {0, 1}
    /\ CanRedo(scen.log[1], scen.log[2], 0)
    /\ PagesWithInk(scen.log[1], scen.log[2]) = {0}
    /\ DOMAIN pageHistory = {0}
    /\ Len(pageHistory[0]) < Len(scen.log[1][0])

\* C14: loading a payload that the snapshot operation produced and
\* re-serializing the store at once yields a payload with the same pages, the
\* same stroke-lists for each page and the same index for each page.
C14_PayloadRoundTrip ==
    [][(SaveAndLoad /\ ~IsNull(GetAnnotationData(pageHistory, pageHistoryIndex)))
       => GetAnnotationData(pageHistory', pageHistoryIndex')
          = GetAnnotationData(pageHistory, pageHistoryIndex)]_vars

\* C14 witness: a payload with the ink of two pages has been loaded
C14_Witness ==
    /\ scen.phase = "restored"
    /\ PagesWithInk(scen.log[1], scen.log[2]) = {0, 1}
    /\ PagesWithInk(pageHistory, pageHistoryIndex) = {0, 1}
    /\ ~IsNull(GetAnnotationData(pageHistory, pageHistoryIndex))

(* ------------------------- C11, C12, C15, C16 -------------------------- *)
\* every page of the store holds a single empty stroke-list at index 0
AllPagesEmpty(h, ix) ==
    /\ DOMAIN ix = DOMAIN h
    /\ \A p \in DOMAIN h : h[p] = << <<>> >> /\ ix[p] = 0

\* C11: clear resets every page to a stack holding a single empty stroke-list
\* with currentIndex 0, and after it no sequence of undo and redo brings back
\* a stroke that existed before the clear.
C11_ClearResetsAllPages ==
    scen.phase = "clear" => AllPagesEmpty(pageHistory, pageHistoryIndex)

\* C12: initializePages(n) discards all prior history and leaves exactly the
\* pages 0..n-1 in the store, each with a stack of one empty stroke-list and
\* currentIndex 0, canUndo and canRedo both false.
C12_InitializePagesResets ==
    [][\A n \in 1 .. NumPages :
          InitializePages(n)
          => /\ DOMAIN pageHistory' = 0 .. (n - 1)
             /\ AllPagesEmpty(pageHistory', pageHistoryIndex')
             /\ \A p \in 0 .. NumPages :
                   /\ ~CanUndo(pageHistory', pageHistoryIndex', p)
                   /\ ~CanRedo(pageHistory', pageHistoryIndex', p)]_vars

\* C12 witness: with the pages of a document shown, initializePages(1) has run
\* on a store that held a stroke-list beyond the initial one
C12_Witness ==
    /\ scen.phase = "initializePages"
    /\ scen.log = <<1>>
    /\ scen.k >= 1
    /\ DOMAIN pageHistory = {0}
    /\ pages = NumPages

\* what historyChanged must carry for page p of the store h, ix
ButtonsOf(h, ix, p) == <<CanUndo(h, ix, p), CanRedo(h, ix, p)>>

\* the host is notified in this step with the state of the active page after it
NotifiesActivePage ==
    out'.hc = <<ButtonsOf(pageHistory', pageHistoryIndex', lastActivePage')>>

C16_ResizeKeepsStore ==
    [][\A p \in Pages, size \in {LayoutSize, DefaultSize} :
          SetupCanvases(p, size)
          => /\ \A q \in DOMAIN pageHistory :
                   /\ q \in DOMAIN pageHistory'
                   /\ pageHistory'[q] = pageHistory[q]
                   /\ IndexOf(pageHistoryIndex', q) = IndexOf(pageHistoryIndex, q)
             /\ DOMAIN pageHistory' = DOMAIN pageHistory \cup {p}
             /\ p \notin DOMAIN pageHistory
                => pageHistory'[p] = << <<>> >> /\ pageHistoryIndex'[p] = 0
             /\ canvases'[p] = size
             /\ \A q \in DOMAIN canvases \ {p} : canvases'[q] = canvases[q]]_vars

\* C16 witness: the single canvas, laid out at LayoutSize, has been resized to
\* DefaultSize while its page held a stroke
C16_Witness ==
    /\ scen.phase = "setupCanvases"
    /\ scen.log = <<0>>
    /\ scen.k >= 1
    /\ pages = 0
    /\ canvases[0] = DefaultSize
    /\ Len(CurrentPaths(pageHistory, pageHistoryIndex, 0)) = 1

(* --------------------------- C17, C18, C19, C20 ------------------------ *)
\* c is n / d rounded to the nearest integer, halves upward
IsRound(c, n, d) == 2 * c * d - d <= 2 * n /\ 2 * n < 2 * c * d + d

\* the fraction f, a pair <<numerator, denominator>>, is n / d
IsFraction(f, n, d) == f[2] > 0 /\ f[1] * d = n * f[2]

\* C17: for a selection with display origin (x, y) and size (w, h) on a page of
\* display width D and master width M, the excerpt crops the master render at
\* origin (round(x*M/D), round(y*M/D)) with size (round(w*M/D), round(h*M/D));
\* for x=100, y=50, w=200, h=150, D=1000, M=2000 the crop is 200, 100, 400, 300.
C17_CropIsScaledSelection ==
    [][\A i \in 1 .. MaxInFlight + 1 :
          (Mappable(i) /\ ~Degenerate(i) /\ ExcerptGetPage(i, TRUE))
          => LET t == excerpts[i]
                 M == MasterSize(t.pageIndex)[1]
                 D == canvases[t.pageIndex][1]
                 c == excerpts'[i].crop
             IN  /\ excerpts'[i].pc = "render"
                 /\ \A k \in 1 .. 4 : IsRound(c[k], t.rect[k] * M, D)
                 /\ (t.rect = <<100, 50, 200, 150>> /\ D = 1000 /\ M = 2000)
                    => c = <<200, 100, 400, 300>>]_vars

\* C17 witness: the selection of the example has been mapped on a page of
\* display width 1000 and master width 2000
C17_Witness ==
    /\ Len(excerpts) >= 1
    /\ excerpts[1].pc = "render"
    /\ excerpts[1].rect = <<100, 50, 200, 150>>
    /\ excerpts[1].render = <<1000, 500>>
    /\ MasterSize(excerpts[1].pageIndex)[1] = 2000
    /\ excerpts[1].crop = <<200, 100, 400, 300>>

\* C18: the sourceRect reported with an excerpt is relX = x / displayWidth,
\* relY = y / displayHeight, relWidth = w / displayWidth, relHeight =
\* h / displayHeight for the selection (x, y, w, h) in display pixels, whatever
\* the master resolution.
C18_SourceRectIsDisplayRelative ==
    [][\A i \in 1 .. MaxInFlight + 1 :
          (i \in 1 .. Len(excerpts) /\ ExcerptRender(i, TRUE))
          => LET t == excerpts[i]
                 r == out'.snap[1].sourceRelRect
             IN  /\ Len(out'.snap) = 1
                 /\ IsFraction(r[1], t.rect[1], t.render[1])
                 /\ IsFraction(r[2], t.rect[2], t.render[2])
                 /\ IsFraction(r[3], t.rect[3], t.render[1])
                 /\ IsFraction(r[4], t.rect[4], t.render[2])]_vars

\* C18 witness: an excerpt of the selection 100, 50, 200, 150 on a page shown
\* at 1000 x 500 has been reported with the sourceRect 1/10, 1/10, 1/5, 3/10
C18_Witness ==
    /\ Len(out.snap) = 1
    /\ out.snap[1].crop = <<200, 100, 400, 300>>
    /\ out.snap[1].sourceRelRect = << <<1, 10>>, <<1, 10>>, <<1, 5>>, <<3, 10>> >>

\* C19: a selection gesture triggers an excerpt only when both its width and
\* its height exceed 5 px, and a note creation only when both exceed 20 px; a
\* smaller selection fires no excerpt or note event and commits nothing.
C19_SmallSelectionsDiscarded ==
    [][(Release /\ tool \in SelTools /\ ~IsNull(selection))
       => LET sel == The(selection)
              w   == Abs(sel.endX - sel.startX)
              h   == Abs(sel.endY - sel.startY)
          IN  /\ excerpts' # excerpts
                 => tool = "snapshot" /\ w > MinExcerpt /\ h > MinExcerpt
              /\ out'.note # <<>>
                 => tool = "note" /\ w > MinNote /\ h > MinNote
              /\ (tool = "snapshot" /\ ~(w > MinExcerpt /\ h > MinExcerpt))
                 => excerpts' = excerpts
              /\ (tool = "note" /\ ~(w > MinNote /\ h > MinNote))
                 => out'.note = <<>>
              /\ out'.snap = <<>>
              /\ UNCHANGED store]_vars

\* C19 witness: a selection of 6 x 7 px has started an excerpt
C19_Witness ==
    /\ Len(excerpts) = 1
    /\ excerpts[1].pc = "getPage"
    /\ excerpts[1].rect = <<1, 1, 6, 7>>
    /\ tool = "snapshot"

\* C20 as stated: when the mapped width or height of the selection is <= 0
\* after rounding, the excerpt is aborted: no result is emitted and failure is
\* signalled to the host.
C20_DegenerateSignalsFailure ==
    [][\A i \in 1 .. MaxInFlight + 1 :
          (Mappable(i) /\ Degenerate(i) /\ ExcerptGetPage(i, TRUE))
          => /\ excerpts' = Without(excerpts, i)
             /\ out'.snap = <<>>
             /\ out'.toast # <<>>]_vars

\* C20 amended: when the mapped width or height of the selection is <= 0 after
\* rounding, the excerpt is dropped silently: no result and no failure
\* notification is emitted, the selection is removed, the machine is idle and
\* the store is unchanged.
C20_DegenerateIsDropped ==
    [][\A i \in 1 .. MaxInFlight + 1 :
          (Mappable(i) /\ Degenerate(i) /\ ExcerptGetPage(i, TRUE))
          => /\ excerpts' = Without(excerpts, i)
             /\ out'.snap = <<>>
             /\ out'.toast = <<>>
             /\ IsNull(selection')
             /\ ~isDrawing'
             /\ UNCHANGED store]_vars

\* C20 witness: an excerpt whose mapped size was degenerate has been dropped:
\* no excerpt is in flight, nothing was emitted and the machine is idle
C20_Witness ==
    /\ scen.phase = "dropped"
    /\ excerpts = <<>>
    /\ out.snap = <<>>
    /\ out.toast = <<>>
    /\ ~isDrawing
    /\ IsNull(selection)

(* ------------------------- gestures and resizes ------------------------ *)
\* the pointer positions of scen.log, without the sizes they were sampled at
LogPoints == [i \in 1 .. Len(scen.log) |-> scen.log[i][1]]

\* the positions of scen.log, each divided by the size it was sampled at
LogNormalizedAtSampling ==
    [i \in 1 .. Len(scen.log) |-> <<Div(scen.log[i][1][1], scen.log[i][2][1]),
                                    Div(scen.log[i][1][2], scen.log[i][2][2])>>]

\* the stroke a step has put last in the current list of page p
LastCommitted(p) ==
    LET after == CurrentPaths(pageHistory', pageHistoryIndex', p)
    IN  after[Len(after)]

\* a fraction <<n, d>> lies within [0, 1]
InUnit(f) == f[2] > 0 /\ 0 <= f[1] /\ f[1] <= f[2]

\* C24: from a press until its release, whatever happens in between, moves
\* are measured against, and the release commits to, the page of the press.
C24_GestureKeepsItsPage ==
    [][(scen.phase = "open" /\ ((\E pt \in {FarPt, OutPt} : Move(pt)) \/ Release))
       => /\ lastActivePage = scen.k
          /\ \A q \in Pages \ {scen.k} :
                /\ StackOf(pageHistory', q) = StackOf(pageHistory, q)
                /\ IndexOf(pageHistoryIndex', q) = IndexOf(pageHistoryIndex, q)]_vars

\* C25: every point of a committed stroke is the sampled pixel position divided
\* by the surface size that was active when the point was sampled, also when the
\* surface is resized between press and release.
C25_NormalizedAtSampling ==
    [][(Release /\ scen.phase = "open" /\ tool \in InkTools /\ lastActivePage = scen.k
               /\ pageHistory' # pageHistory)
       => LastCommitted(scen.k).points = LogNormalizedAtSampling]_vars

\* C26: a resize during a stroke gesture leaves the in-progress stroke as it
\* was, and the release commits a stroke made of every sampled point, the ones
\* sampled before the resize included.
C26_ResizeKeepsStroke ==
    /\ [][\A p \in Pages, size \in {LayoutSize, DefaultSize} :
             (SetupCanvases(p, size) /\ isDrawing /\ ~IsNull(currentPath))
             => /\ currentPath' = currentPath
                /\ The(currentPath).points = LogPoints
                /\ isDrawing']_vars
    /\ [][(Release /\ scen.phase = "open" /\ tool \in InkTools /\ hasMoved
                  /\ HasSurface(lastActivePage))
          => /\ Len(LastCommitted(lastActivePage).points) = Len(scen.log)
             /\ CommitsOneStroke(lastActivePage, LogPoints)]_vars

\* C26 witness: a stroke gesture that saw a resize has been released and its
\* stroke, sampled partly before the resize, is in a current list
C26_Witness ==
    /\ scen.phase = "resized"
    /\ ~isDrawing
    /\ \E p \in DOMAIN pageHistory :
          LET l == CurrentPaths(pageHistory, pageHistoryIndex, p)
          IN  Len(l) = 1 /\ Len(l[1].points) = 3

\* C27: every point of every committed stroke has both coordinates within
\* [0, 1], also when the pointer moved outside the surface during the drag.
C27_PointsInUnitSquare ==
    \A p \in DOMAIN pageHistory :
       \A k \in 1 .. Len(pageHistory[p]) :
          \A j \in 1 .. Len(pageHistory[p][k]) :
             \A i \in 1 .. Len(pageHistory[p][k][j].points) :
                /\ InUnit(pageHistory[p][k][j].points[i][1])
                /\ InUnit(pageHistory[p][k][j].points[i][2])

\* C28: a move during a stroke gesture appends the sampled point to the
\* in-progress stroke and changes no stack and no index; a move during a
\* selection gesture changes nothing of the selection but its end corner.
C28_MoveOnlyExtends ==
    [][\A pt \in {FarPt, OutPt} :
          (Move(pt) /\ lastActivePage \in DOMAIN canvases)
          => /\ UNCHANGED store
             /\ IF tool \in SelTools /\ ~IsNull(selection)
                THEN /\ selection' = Some([The(selection) EXCEPT !.endX = pt[1],
                                                                 !.endY = pt[2]])
                     /\ UNCHANGED <<currentPath, isDrawing>>
                ELSE /\ UNCHANGED <<selection, isDrawing>>
                     /\ ~IsNull(currentPath)
                        => The(currentPath').points = Append(The(currentPath).points, pt)]_vars

\* C28 witness: two moves have extended the in-progress stroke to three points
\* while no page holds a committed stroke
C28_Witness ==
    /\ isDrawing
    /\ ~IsNull(currentPath)
    /\ The(currentPath).points = <<PressPt, FarPt, OutPt>>
    /\ PagesWithInk(pageHistory, pageHistoryIndex) = {}

(* --------------------- excerpt failure and pending --------------------- *)
\* this step notifies an excerpt failure, emits no excerpt and keeps the store
ExcerptFailed ==
    /\ out'.toast # <<>>
    /\ out'.snap = <<>>
    /\ UNCHANGED store

\* the selection is released with the snapshot tool and is large enough
ExcerptRequested ==
    /\ tool = "snapshot"
    /\ ~IsNull(selection)
    /\ SelectionRect(The(selection))[3] > MinExcerpt
    /\ SelectionRect(The(selection))[4] > MinExcerpt
    /\ Release

\* C21: when an excerpt is requested and a rendering call rejects, or the
\* document is unavailable, a failure notification is raised, no excerpt is
\* emitted and no stack or index changes.
C21_FailureIsNotified ==
    [][/\ \A i \in 1 .. MaxInFlight + 1 :
             (ExcerptGetPage(i, FALSE) \/ ExcerptRender(i, FALSE)) => ExcerptFailed
       /\ (ExcerptRequested /\ ~pdfDoc) => ExcerptFailed]_vars

\* an excerpt is in flight
Pending == excerpts # <<>>

\* C22: while an excerpt is in flight, press, move, release, undo, redo and
\* clear act as they do otherwise: undo and redo step the index within its
\* range, clear resets the pages, a press opens a stroke, a move extends it, a
\* release commits it and ends the gesture.
C22_PendingBlocksNothing ==
    [][Pending =>
         LET page  == lastActivePage
             index == IndexOf(pageHistoryIndex, page)
             len   == Len(StackOf(pageHistory, page))
         IN  /\ Undo => /\ IndexOf(pageHistoryIndex', page)
                             = IF index > 0 THEN index - 1 ELSE index
                        /\ UNCHANGED <<pageHistory, gesture>>
             /\ Redo => /\ IndexOf(pageHistoryIndex', page)
                             = IF index < len - 1 THEN index + 1 ELSE index
                        /\ UNCHANGED <<pageHistory, gesture>>
             /\ Clear => /\ \A p \in (IF pages = 0 THEN {0} ELSE DOMAIN pageHistory) :
                               /\ pageHistory'[p] = << <<>> >>
                               /\ pageHistoryIndex'[p] = 0
                         /\ UNCHANGED gesture
             /\ (Press(0, PressPt, 0) /\ tool \in InkTools)
                => /\ isDrawing' /\ ~hasMoved' /\ lastActivePage' = 0
                   /\ currentPath' = Some(NewPath(tool, PressPt))
                   /\ UNCHANGED store
             /\ (Move(FarPt) /\ tool \in InkTools /\ ~IsNull(currentPath))
                => /\ The(currentPath').points = Append(The(currentPath).points, FarPt)
                   /\ UNCHANGED store
             /\ (Release /\ tool \in InkTools /\ ~IsNull(currentPath) /\ hasMoved
                         /\ HasSurface(page))
                => /\ CommitsOneStroke(page, The(currentPath).points)
                   /\ ~isDrawing'
                   /\ IsNull(currentPath')]_vars

\* C22 witness: a stroke gesture has been made and committed while an excerpt
\* was waiting for its render, and the excerpt is still waiting
C22_Witness ==
    /\ Pending
    /\ excerpts[1].pc = "render"
    /\ ~isDrawing
    /\ Len(CurrentPaths(pageHistory, pageHistoryIndex, excerpts[1].pageIndex))
          > Len(excerpts[1].inkAtRequest)

C29_ReleaseClearsSelection ==
    [][(Release /\ tool \in SelTools /\ ~IsNull(selection))
       => /\ IsNull(selection')
          /\ ~isDrawing']_vars

\* C30: on every page the first stroke-list is empty, the k-th list after it
\* holds k strokes and each list is a prefix of the next.
C30_StackIsPrefixChain ==
    \A p \in DOMAIN pageHistory :
       LET stack == pageHistory[p]
       IN  /\ Len(stack) >= 1
           /\ stack[1] = <<>>
           /\ \A k \in 1 .. Len(stack) - 1 :
                 /\ Len(stack[k + 1]) = k
                 /\ SubSeq(stack[k + 1], 1, k - 1) = stack[k]

(* ------------------------------- styles -------------------------------- *)
\* the tool, blend mode and opacity of a stroke
StyleOf(stroke) == <<stroke.tool, stroke.compositeOperation, stroke.globalAlpha>>

\* the style the strokes of tool t are to have: erase removes the destination,
\* highlight is drawn at opacity 3/10, everything else is opaque and normal
ToolStyle(t) ==
    <<t,
      IF t = "erase" THEN "destination-out" ELSE "source-over",
      IF t = "highlight" THEN <<3, 10>> ELSE <<1, 1>>>>

\* C31: a committed stroke has the blend mode and opacity of the tool it was
\* started with, and no step changes the tool, blend mode or opacity of a
\* stroke held in a list up to the current one.
C31_StrokeStyles ==
    /\ [][(Release /\ pageHistory' # pageHistory)
          => /\ scen.phase \in InkTools
             /\ StyleOf(LastCommitted(lastActivePage)) = ToolStyle(scen.phase)]_vars
    /\ [][\A p \in DOMAIN pageHistory \cap DOMAIN pageHistory' :
             \A j \in 1 .. Min(Min(Len(pageHistory[p]), Len(pageHistory'[p])),
                               IndexOf(pageHistoryIndex, p) + 1) :
                \A i \in 1 .. Min(Len(pageHistory[p][j]), Len(pageHistory'[p][j])) :
                   StyleOf(pageHistory'[p][j][i]) = StyleOf(pageHistory[p][j][i])]_vars

\* C31 witness: a highlight stroke and an erase stroke over it have been
\* saved and restored
C31_Witness ==
    /\ scen.k = 1
    /\ ~isProjectLoading
    /\ LET l == CurrentPaths(pageHistory, pageHistoryIndex, ScenarioPage)
       IN  /\ Len(l) = 2
           /\ StyleOf(l[1]) = <<"highlight", "source-over", <<3, 10>>>>
           /\ StyleOf(l[2]) = <<"erase", "destination-out", <<1, 1>>>>

(* ------------------------------ smoothing ------------------------------ *)
\* cmds is the smoothed curve of pts: nothing for no point, a dot for one
\* point; otherwise it starts at the first point, ends at the last one and has,
\* for every interior point, one quadratic segment controlled by that point
\* and ending midway between it and the next point
SmoothShape(pts, cmds) ==
    LET n == Len(pts)
    IN  IF n = 0 THEN cmds = <<>>
        ELSE IF n = 1
        THEN /\ Len(cmds) = 1
             /\ cmds[1].op = "rect"
             /\ cmds[1].w = 1 /\ cmds[1].h = 1
             /\ Mid(cmds[1].at[1], <<cmds[1].at[1][1] + cmds[1].at[1][2], cmds[1].at[1][2]>>)
                   = pts[1][1]
             /\ Mid(cmds[1].at[2], <<cmds[1].at[2][1] + cmds[1].at[2][2], cmds[1].at[2][2]>>)
                   = pts[1][2]
        ELSE /\ Len(cmds) = n
             /\ cmds[1] = [op |-> "moveTo", to |-> pts[1]]
             /\ cmds[n] = [op |-> "lineTo", to |-> pts[n]]
             /\ \A i \in 2 .. n - 1 :
                   /\ cmds[i].op = "quadraticCurveTo"
                   /\ cmds[i].c = pts[i]
                   /\ 2 * cmds[i].to[1][1] * pts[i][1][2] * pts[i + 1][1][2]
                         = cmds[i].to[1][2] * (pts[i][1][1] * pts[i + 1][1][2]
                                               + pts[i + 1][1][1] * pts[i][1][2])
                   /\ 2 * cmds[i].to[2][1] * pts[i][2][2] * pts[i + 1][2][2]
                         = cmds[i].to[2][2] * (pts[i][2][1] * pts[i + 1][2][2]
                                               + pts[i + 1][2][1] * pts[i][2][2])

\* pixel positions as pairs of fractions
AsFractions(pts) == [i \in 1 .. Len(pts) |-> <<<<pts[i][1], 1>>, <<pts[i][2], 1>>>>]

\* every Path2D of drawn is the smoothed curve of the path of the same rank in
\* paths, scaled to w by ht
SmoothDrawing(drawn, paths, w, ht) ==
    /\ Len(drawn) = Len(paths)
    /\ \A j \in 1 .. Len(paths) :
          SmoothShape(AbsolutePoints(paths[j], w, ht), drawn[j])

\* C32: the curve of no point is empty, of one point a dot at the point, of
\* two or more points it runs from the first to the last point with one
\* quadratic segment per interior point, controlled by the point and ending
\* midway to the next one; the live preview, the redraw of committed strokes
\* and the excerpt are all drawn this way.
C32_SmoothPathShape ==
    [][/\ SmoothShape(<<>>, GetPathAsSVG(<<>>))
       /\ scen'.phase = "live" /\ scen' # scen
          => /\ Len(scen'.log) = 1
             /\ SmoothShape(AsFractions(The(currentPath').points), scen'.log[1])
       /\ scen'.phase = "redraw" /\ scen' # scen /\ HasSurface(lastActivePage)
          => SmoothDrawing(scen'.log,
                           CurrentPaths(pageHistory', pageHistoryIndex', lastActivePage),
                           canvases[lastActivePage][1], canvases[lastActivePage][2])
       /\ \A i \in 1 .. MaxInFlight + 1 :
             ExcerptRender(i, TRUE)
             => SmoothDrawing(scen'.log,
                              CurrentPaths(pageHistory, pageHistoryIndex, excerpts[i].pageIndex),
                              MasterSize(excerpts[i].pageIndex)[1],
                              MasterSize(excerpts[i].pageIndex)[2])]_vars

\* C32 witness: an excerpt has drawn a committed stroke of three points, whose
\* curve has one quadratic segment
C32_Witness ==
    /\ scen.phase = "excerpt"
    /\ Len(scen.log) = 1
    /\ Len(scen.log[1]) = 3
    /\ scen.log[1][2].op = "quadraticCurveTo"

(* ------------------------- overlapping excerpts ------------------------ *)
\* C33: a selection gesture emits at most one excerpt result, also when
\* further releases arrive while its render is in flight.
C33_OneResultPerGesture == scen.k <= 1

\* C34: the completion of an excerpt requested before the press of the
\* current gesture leaves that gesture active, with its selection and its
\* in-progress stroke as they were.
C34_CompletionSparesLaterGesture ==
    [][\A i \in 1 .. MaxInFlight + 1, ok \in BOOLEAN :
          (/\ ExcerptGetPage(i, ok) \/ ExcerptRender(i, ok)
           /\ scen.phase = "open"
           /\ RequestedBefore(i))
          => UNCHANGED <<isDrawing, selection, currentPath>>]_vars

(* ------------------------------ idle state ----------------------------- *)
\* C35: whenever no gesture is active there is no pending selection and no
\* in-progress stroke.
C35_IdleHoldsNothing == ~isDrawing => (IsNull(selection) /\ IsNull(currentPath))

(* ------------------------------ other pages ---------------------------- *)
\* C36: a commit, an undo and a redo on one page leave the stack and the index
\* of every other page as they were.
C36_OtherPagesUntouched ==
    [][(Release \/ Undo \/ Redo)
       => \A q \in Pages \ {lastActivePage} :
             /\ (q \in DOMAIN pageHistory') = (q \in DOMAIN pageHistory)
             /\ (q \in DOMAIN pageHistoryIndex') = (q \in DOMAIN pageHistoryIndex)
             /\ StackOf(pageHistory', q) = StackOf(pageHistory, q)
             /\ IndexOf(pageHistoryIndex', q) = IndexOf(pageHistoryIndex, q)]_vars

\* C36 witness: page 0 holds a committed stroke while a stroke committed on
\* page 1 has been undone there
C36_Witness ==
    /\ lastActivePage = 1
    /\ IndexOf(pageHistoryIndex, 0) = 1
    /\ Len(StackOf(pageHistory, 0)) = 2
    /\ IndexOf(pageHistoryIndex, 1) = 0
    /\ Len(StackOf(pageHistory, 1)) = 2

(* ----------------------------- end of a load --------------------------- *)
\* C37: every project load that sets the loading flag eventually clears it,
\* whether or not the project holds annotations for either canvas.
C37_LoadingEnds == isProjectLoading ~> ~isProjectLoading

(* --------------------------------- C38 --------------------------------- *)
\* the payload that a save would write in the current state
Payload == GetAnnotationData(pageHistory, pageHistoryIndex)

\* the value stored under key p in an array of [key, value] entries
EntryOf(entries, p) == (CHOOSE i \in 1 .. Len(entries) : entries[i][1] = p)

\* C38: in every payload produced by the snapshot operation, the history
\* list and the historyIndex list cover exactly the same set of pages (each
\* once), and each page's index is >= 0 and equals the length of that page's
\* stored stack minus 1.
C38_PayloadIsConsistent ==
    ~IsNull(Payload)
    => LET d == The(Payload)
       IN  /\ KeysOf(d.history) = KeysOf(d.historyIndex)
           /\ Len(d.history) = Cardinality(KeysOf(d.history))
           /\ Len(d.historyIndex) = Cardinality(KeysOf(d.historyIndex))
           /\ \A i \in 1 .. Len(d.historyIndex) :
                 LET e == d.historyIndex[i]
                 IN  /\ e[2] >= 0
                     /\ e[2] = Len(d.history[EntryOf(d.history, e[1])][2]) - 1

\* C38 witness: a payload is written while page 0 has ink and a list to redo
\* (its stored stack is shorter than its stack) and page 1 has a history
\* without ink (it is in neither list)
C38_Witness ==
    /\ ~IsNull(Payload)
    /\ DOMAIN pageHistoryIndex = {0, 1}
    /\ KeysOf(The(Payload).history) = {0}
    /\ CanRedo(pageHistory, pageHistoryIndex, 0)
    /\ Len(The(Payload).history[1][2]) < Len(pageHistory[0])

(* --------------------------------- C39 --------------------------------- *)
\* C39: whenever no gesture is active, the canUndo/canRedo values most
\* recently reported to the host equal (currentIndex > 0, currentIndex <
\* length - 1) of the currently active page, after any sequence of commands
\* including initializePages, restore from persistence and a change of the
\* active page.  The states in which a restore is still under way (its
\* timers have not all run) are left out.
C39_HostButtonsAreCurrent ==
    (~isDrawing /\ ~isProjectLoading)
    => scen.log = ButtonsOf(pageHistory, pageHistoryIndex, lastActivePage)

(* --------------------------------- C40 --------------------------------- *)
\* after this step every bound surface of a page of ps shows the rendering of
\* the current stroke-list of its page, and no in-progress stroke
ShowsCurrentLists(ps) ==
    \A p \in ps \cap DOMAIN canvases' :
       shown'[p] = [paths |-> RedrawCanvas(pageHistory', pageHistoryIndex', canvases', p),
                    live  |-> Null]

\* C40: after each of commit, undo, redo, clear, initializePages and resize
\* completes, the ink shown on a bound page surface is exactly the rendering
\* of strokeListStack[currentIndex] of that page (nothing from a discarded or
\* undone state remains displayed).  Each operation is held to the pages it
\* acts on (the active page, the pages cleared, every page, the page resized),
\* the commands are those given while no gesture is active, and an undo or
\* redo is one that moves the index.
C40_DisplayIsCurrent ==
    [][/\ ((Release /\ pageHistory' # pageHistory) \/ (~isDrawing /\ (Undo \/ Redo)
                                                   /\ pageHistoryIndex' # pageHistoryIndex))
          => ShowsCurrentLists({lastActivePage})
       /\ (~isDrawing /\ Clear) => ShowsCurrentLists(ClearedPages(pageHistory, pages))
       /\ (~isDrawing /\ \E n \in 1 .. NumPages : InitializePages(n))
          => ShowsCurrentLists(Pages)
       /\ \A p \in Pages :
             (~isDrawing /\ \E size \in {LayoutSize, DefaultSize} : SetupCanvases(p, size))
             => ShowsCurrentLists({p})]_vars

====
